---- MODULE Spec2Model ----
(***************************************************************************)
(* Container health-check engine of nerdctl (pkg/healthcheck).             *)
(*                                                                         *)
(* One invocation of ExecuteHealthCheck is modelled step by step: the      *)
(* command resolution, the exec/start/wait of the probe process, the race  *)
(* between the timeout and the exit notification, and the update of the    *)
(* persisted health state and health log.  The probe process, the clock    *)
(* and the outcome of every call to a collaborator are the environment.    *)
(***************************************************************************)
EXTENDS Integers, Sequences, FiniteSets, TLC

VARIABLES
    hc,           \* the container's Healthcheck config (Test, Timeout, StartPeriod, Retries)
    now,          \* the clock, in ticks since the container was created
    healthLabel,  \* the persisted HealthState label of the container, or NoLabel
    healthLog,    \* the persisted health log, oldest entry first
    pc,           \* where the running invocation of ExecuteHealthCheck stands
    workflowType, \* the workflow of the running (or last) invocation
    startTime,    \* startTime of ExecuteHealthCheck
    timerStart,   \* when the select armed time.After(hc.Timeout)
    proc,         \* the probe process: "none", "created", "running", "exited"
    procExit,     \* what ended the probe process: [code, natural]
    outputBuf,    \* the bytes captured from the probe's stdout/stderr
    killSent,     \* process.Kill(SIGKILL) was called in this invocation
    exitTaken,    \* the exit notification was received from exitStatusC
    ioClosed,     \* process.IO().Wait() and Close() were called
    result,       \* the HealthcheckResult handed to updateHealthStatus, or NoResult
    ret,          \* what ExecuteHealthCheck returned
    probeErr,     \* the error probeHealthCheck returned: "nil", or its text
    processSpec,  \* the process spec of prepareProcessSpec, or NoSpec
    systemdOn,    \* systemd is available and DISABLE_HC_SYSTEMD is not "true"
    hcLabelled,   \* the container has a health check label that parses
    units,        \* the transient systemd units of the container, by unit name
    createRet,    \* what CreateHealthCheckTimers returned
    startRet,     \* what StartHealthCheckTimers returned
    cli,          \* the last run of the healthcheck command
    ticks,        \* the invocations in flight when ticks overlap, by tick
    tickHist,     \* history of the overlapping ticks
    rb,           \* a Result Buffer
    rbWritten,    \* history: all the bytes written to rb, in order
    upd,          \* what updateHealthStatus did in this invocation
    failRun,      \* failing health-interval ticks outside the start period, counted
                  \* from the default state while nothing else ran; -1 once broken
    prevLabel     \* healthLabel as it was when the last result reached updateHealthStatus

vars == << hc, now, healthLabel, healthLog, pc, workflowType, startTime, timerStart,
           proc, procExit, outputBuf, killSent, exitTaken, ioClosed, result, ret,
           upd, failRun, prevLabel, probeErr, processSpec, systemdOn, hcLabelled,
           units, createRet, startRet, cli, ticks, tickHist, rb, rbWritten >>

(***************************************************************************)
(* Bounds of the model.                                                    *)
(***************************************************************************)
MaxTime == 1
MaxRetries == 3
MaxStartPeriod == 1
MaxStreak == 3
MaxOutputLen == 1
MaxLogEntries == 1

(***************************************************************************)
(* Constants of the program.                                               *)
(***************************************************************************)
Starting == "starting"
Healthy == "healthy"
Unhealthy == "unhealthy"
StatusValues == {Starting, Healthy, Unhealthy}

WorkflowStartPeriod == "start-period"
WorkflowHealthInterval == "health-interval"
WorkflowTypes == {WorkflowStartPeriod, WorkflowHealthInterval, "other"}

CmdNone == <<"NONE">>
TestNone == << >>
Cmd == <<"CMD">>
CmdShell == <<"CMD-SHELL">>

NoLabel == [absent |-> TRUE]
NoResult == [absent |-> TRUE]
NoExit == [absent |-> TRUE]
NoSpec == [absent |-> TRUE]
CreatedAt == 0

\* A string is a sequence of symbols; " " is the one whitespace symbol.
Space == " "
Bytes == {"a", "b"}
ProbeExitCodes == {0, 3}

(***************************************************************************)
(* Strings and the Result Buffer.                                          *)
(***************************************************************************)
RECURSIVE TrimLeft(_)
TrimLeft(s) == IF s # << >> /\ Head(s) = Space THEN TrimLeft(Tail(s)) ELSE s

RECURSIVE TrimRight(_)
TrimRight(s) ==
    IF s # << >> /\ s[Len(s)] = Space THEN TrimRight(SubSeq(s, 1, Len(s) - 1)) ELSE s

\* strings.TrimSpace
TrimSpace(s) == TrimRight(TrimLeft(s))

\* strings.Join
RECURSIVE Join(_, _)
Join(elems, sep) ==
    IF elems = << >> THEN << >>
    ELSE IF Len(elems) = 1 THEN elems[1]
    ELSE elems[1] \o sep \o Join(Tail(elems), sep)

\* NewResizableBuffer(MaxOutputLen): nothing captured yet
NewResizableBuffer == << >>

\* one byte written to the buffer: kept while there is room, dropped after
BufferWrite(buf, b) == IF Len(buf) < MaxOutputLen THEN Append(buf, b) ELSE buf

(***************************************************************************)
(* The Result Buffer on its own, written in chunks: its capacity, the      *)
(* bytes it holds, and what the last Write returned (the number of bytes   *)
(* it reports as written, and its error).                                  *)
(***************************************************************************)
MaxBufSize == 3
MaxChunk == 2
MaxWritten == 5

NewResizableBufferOf(maxSize) ==
    [maxSize |-> maxSize, data |-> << >>, n |-> 0, err |-> "not called"]

\* a Write that makes room for the latest bytes by dropping the earliest
ResizableBufferWrite_KeepLatest(buf, p) ==
    LET all == buf.data \o p
        from == IF Len(all) > buf.maxSize THEN Len(all) - buf.maxSize + 1 ELSE 1
    IN  [buf EXCEPT !.data = SubSeq(all, from, Len(all)), !.n = Len(p), !.err = "nil"]

\* Write: the bytes that fit are appended, the remainder is discarded, and the
\* whole chunk is reported as written
ResizableBufferWrite(buf, p) ==
    LET remaining == buf.maxSize - Len(buf.data)
        kept == IF remaining <= 0 THEN << >>
                ELSE IF Len(p) > remaining THEN SubSeq(p, 1, remaining)
                ELSE p
    IN  [buf EXCEPT !.data = @ \o kept, !.n = Len(p), !.err = "nil"]

\* String: the captured content as it is
ResizableBufferString(buf) == buf.data

\* the chunks a stream delivers
Chunks == UNION {[1..n -> Bytes] : n \in 0..MaxChunk}

(***************************************************************************)
(* prepareProcessSpec: the command resolution.  specOk is the outcome of   *)
(* container.Spec.                                                         *)
(***************************************************************************)
NoCommandError == "no health check command specified"

\* prepareProcessSpec skipping only on the NONE tag, not on the empty one
prepareProcessSpec_OnlyCmdNone(hcCommand, specOk) ==
    IF hcCommand = << >> THEN [kind |-> "panic"]
    ELSE IF hcCommand[1] = CmdNone THEN [kind |-> "skip"]
    ELSE IF hcCommand[1] = CmdShell
            /\ (Len(hcCommand) < 2 \/ TrimSpace(hcCommand[2]) = << >>)
         THEN [kind |-> "error", err |-> NoCommandError]
    ELSE LET args == IF hcCommand[1] = Cmd THEN Tail(hcCommand)
                     ELSE IF hcCommand[1] = CmdShell
                          THEN << <<"/bin/sh">>, <<"-c">>, Join(Tail(hcCommand), <<Space>>) >>
                          ELSE hcCommand
         IN  IF Len(args) < 1 \/ args[1] = << >>
             THEN [kind |-> "error", err |-> NoCommandError]
             ELSE IF ~specOk
             THEN [kind |-> "error", err |-> "failed to get container spec"]
             ELSE [kind |-> "spec", Args |-> args]

\* prepareProcessSpec testing the shell command for empty without trimming it
prepareProcessSpec_NoTrim(hcCommand, specOk) ==
    IF hcCommand = << >> THEN [kind |-> "panic"]
    ELSE IF hcCommand[1] \in {TestNone, CmdNone} THEN [kind |-> "skip"]
    ELSE IF hcCommand[1] = CmdShell
            /\ (Len(hcCommand) < 2 \/ hcCommand[2] = << >>)
         THEN [kind |-> "error", err |-> NoCommandError]
    ELSE LET args == IF hcCommand[1] = Cmd THEN Tail(hcCommand)
                     ELSE IF hcCommand[1] = CmdShell
                          THEN << <<"/bin/sh">>, <<"-c">>, Join(Tail(hcCommand), <<Space>>) >>
                          ELSE hcCommand
         IN  IF Len(args) < 1 \/ args[1] = << >>
             THEN [kind |-> "error", err |-> NoCommandError]
             ELSE IF ~specOk
             THEN [kind |-> "error", err |-> "failed to get container spec"]
             ELSE [kind |-> "spec", Args |-> args]

\* prepareProcessSpec joining the whole Test, tag included, into the shell command
prepareProcessSpec_ShellJoinsTag(hcCommand, specOk) ==
    IF hcCommand = << >> THEN [kind |-> "panic"]
    ELSE IF hcCommand[1] \in {TestNone, CmdNone} THEN [kind |-> "skip"]
    ELSE IF hcCommand[1] = CmdShell
            /\ (Len(hcCommand) < 2 \/ TrimSpace(hcCommand[2]) = << >>)
         THEN [kind |-> "error", err |-> NoCommandError]
    ELSE LET args == IF hcCommand[1] = Cmd THEN Tail(hcCommand)
                     ELSE IF hcCommand[1] = CmdShell
                          THEN << <<"/bin/sh">>, <<"-c">>, Join(hcCommand, <<Space>>) >>
                          ELSE hcCommand
         IN  IF Len(args) < 1 \/ args[1] = << >>
             THEN [kind |-> "error", err |-> NoCommandError]
             ELSE IF ~specOk
             THEN [kind |-> "error", err |-> "failed to get container spec"]
             ELSE [kind |-> "spec", Args |-> args]

prepareProcessSpec(hcCommand, specOk) ==
    IF hcCommand = << >> THEN [kind |-> "panic"]
    ELSE IF hcCommand[1] \in {TestNone, CmdNone} THEN [kind |-> "skip"]
    ELSE IF hcCommand[1] = CmdShell
            /\ (Len(hcCommand) < 2 \/ TrimSpace(hcCommand[2]) = << >>)
         THEN [kind |-> "error", err |-> NoCommandError]
    ELSE LET args == IF hcCommand[1] = Cmd THEN Tail(hcCommand)
                     ELSE IF hcCommand[1] = CmdShell
                          THEN << <<"/bin/sh">>, <<"-c">>, Join(Tail(hcCommand), <<Space>>) >>
                          ELSE hcCommand
         IN  IF Len(args) < 1 \/ args[1] = << >>
             THEN [kind |-> "error", err |-> NoCommandError]
             ELSE IF ~specOk
             THEN [kind |-> "error", err |-> "failed to get container spec"]
             ELSE [kind |-> "spec", Args |-> args]

(***************************************************************************)
(* The persisted health state and health log.                              *)
(***************************************************************************)
\* readHealthStateFromLabels: nil when the container has no health state label
readHealthStateFromLabels(label) == label

\* writeHealthStateToLabels
writeHealthStateToLabels(label, health) == health

\* writeHealthLog: the result is appended, the oldest entries beyond the capacity go
\* (an entry is kept as the exit code of its result)
writeHealthLog(log, hcResult) ==
    LET all == Append(log, [ExitCode |-> hcResult.ExitCode])
    IN  IF Len(all) > MaxLogEntries
        THEN SubSeq(all, Len(all) - MaxLogEntries + 1, Len(all))
        ELSE all

\* the HealthState a label stands for: the default {Starting, 0} while there is none
StateOf(label) ==
    IF label = NoLabel THEN [Status |-> Starting, FailingStreak |-> 0] ELSE label

\* currentHealth with the label that was read dropped for the default
currentHealth_AlwaysDefault(label) == [Status |-> Starting, FailingStreak |-> 0]

\* currentHealth of updateHealthStatus: the label, or the default when there is none
currentHealth(label) ==
    IF readHealthStateFromLabels(label) = NoLabel
    THEN [Status |-> Starting, FailingStreak |-> 0]
    ELSE readHealthStateFromLabels(label)

stillInStartPeriod(hcConfig, hcResult) ==
    hcResult.Start - CreatedAt < hcConfig.StartPeriod

(***************************************************************************)
(* updateHealthStatus.  Each workflow yields the new health state, whether *)
(* RemoveStartPeriodTimer was called, and whether it returned early.       *)
(***************************************************************************)
\* StartPeriodWorkflow counting a failure inside the start period
StartPeriodWorkflow_CountsFailure(cur, hcResult, still) ==
    IF cur.Status = Healthy \/ ~still
    THEN [health |-> cur, teardown |-> TRUE, early |-> TRUE]
    ELSE IF hcResult.ExitCode = 0
    THEN [health |-> [Status |-> Healthy, FailingStreak |-> 0],
          teardown |-> TRUE, early |-> FALSE]
    ELSE [health |-> [cur EXCEPT !.FailingStreak = @ + 1],
          teardown |-> FALSE, early |-> FALSE]

\* StartPeriodWorkflow that does not look at the expiry of the start period
StartPeriodWorkflow_NoExpiry(cur, hcResult, still) ==
    IF cur.Status = Healthy
    THEN [health |-> cur, teardown |-> TRUE, early |-> TRUE]
    ELSE IF hcResult.ExitCode = 0
    THEN [health |-> [Status |-> Healthy, FailingStreak |-> 0],
          teardown |-> TRUE, early |-> FALSE]
    ELSE [health |-> cur, teardown |-> FALSE, early |-> FALSE]

\* StartPeriodWorkflow writing Starting on a failure inside the start period
StartPeriodWorkflow_FailureToStarting(cur, hcResult, still) ==
    IF cur.Status = Healthy \/ ~still
    THEN [health |-> cur, teardown |-> TRUE, early |-> TRUE]
    ELSE IF hcResult.ExitCode = 0
    THEN [health |-> [Status |-> Healthy, FailingStreak |-> 0],
          teardown |-> TRUE, early |-> FALSE]
    ELSE [health |-> [cur EXCEPT !.Status = Starting],
          teardown |-> FALSE, early |-> FALSE]

\* StartPeriodWorkflow going on to the writes where the code returns early
StartPeriodWorkflow_NeverEarly(cur, hcResult, still) ==
    IF cur.Status = Healthy \/ ~still
    THEN [health |-> cur, teardown |-> TRUE, early |-> FALSE]
    ELSE IF hcResult.ExitCode = 0
    THEN [health |-> [Status |-> Healthy, FailingStreak |-> 0],
          teardown |-> TRUE, early |-> FALSE]
    ELSE [health |-> cur, teardown |-> FALSE, early |-> FALSE]

\* StartPeriodWorkflow marking the container healthy without cleaning up the timer
StartPeriodWorkflow_NoTeardownOnSuccess(cur, hcResult, still) ==
    IF cur.Status = Healthy \/ ~still
    THEN [health |-> cur, teardown |-> TRUE, early |-> TRUE]
    ELSE IF hcResult.ExitCode = 0
    THEN [health |-> [Status |-> Healthy, FailingStreak |-> 0],
          teardown |-> FALSE, early |-> FALSE]
    ELSE [health |-> cur, teardown |-> FALSE, early |-> FALSE]

\* StartPeriodWorkflow cleaning up the timer on a failure inside the start period
StartPeriodWorkflow_TeardownOnFailure(cur, hcResult, still) ==
    IF cur.Status = Healthy \/ ~still
    THEN [health |-> cur, teardown |-> TRUE, early |-> TRUE]
    ELSE IF hcResult.ExitCode = 0
    THEN [health |-> [Status |-> Healthy, FailingStreak |-> 0],
          teardown |-> TRUE, early |-> FALSE]
    ELSE [health |-> cur, teardown |-> TRUE, early |-> FALSE]

StartPeriodWorkflow(cur, hcResult, still) ==
    IF cur.Status = Healthy \/ ~still
    THEN [health |-> cur, teardown |-> TRUE, early |-> TRUE]
    ELSE IF hcResult.ExitCode = 0
    THEN [health |-> [Status |-> Healthy, FailingStreak |-> 0],
          teardown |-> TRUE, early |-> FALSE]
    ELSE [health |-> cur, teardown |-> FALSE, early |-> FALSE]

\* HealthIntervalWorkflow that leaves FailingStreak as it is on a success
HealthIntervalWorkflow_KeepStreak(cur, hcResult, still, Retries) ==
    IF hcResult.ExitCode = 0
    THEN [health |-> [Status |-> Healthy, FailingStreak |-> cur.FailingStreak],
          teardown |-> FALSE, early |-> FALSE]
    ELSE IF ~still
    THEN LET streak == cur.FailingStreak + 1
         IN  [health |-> [Status |-> IF streak >= Retries THEN Unhealthy ELSE cur.Status,
                          FailingStreak |-> streak],
              teardown |-> FALSE, early |-> FALSE]
    ELSE [health |-> cur, teardown |-> FALSE, early |-> FALSE]

\* HealthIntervalWorkflow with > for >= in the comparison with Retries
HealthIntervalWorkflow_OffByOne(cur, hcResult, still, Retries) ==
    IF hcResult.ExitCode = 0
    THEN [health |-> [Status |-> Healthy, FailingStreak |-> 0],
          teardown |-> FALSE, early |-> FALSE]
    ELSE IF ~still
    THEN LET streak == cur.FailingStreak + 1
         IN  [health |-> [Status |-> IF streak > Retries THEN Unhealthy ELSE cur.Status,
                          FailingStreak |-> streak],
              teardown |-> FALSE, early |-> FALSE]
    ELSE [health |-> cur, teardown |-> FALSE, early |-> FALSE]

\* HealthIntervalWorkflow counting failures inside the start period too
HealthIntervalWorkflow_NoGrace(cur, hcResult, still, Retries) ==
    IF hcResult.ExitCode = 0
    THEN [health |-> [Status |-> Healthy, FailingStreak |-> 0],
          teardown |-> FALSE, early |-> FALSE]
    ELSE LET streak == cur.FailingStreak + 1
         IN  [health |-> [Status |-> IF streak >= Retries THEN Unhealthy ELSE cur.Status,
                          FailingStreak |-> streak],
              teardown |-> FALSE, early |-> FALSE]

\* HealthIntervalWorkflow starting the streak over when it turns Unhealthy
HealthIntervalWorkflow_StreakReset(cur, hcResult, still, Retries) ==
    IF hcResult.ExitCode = 0
    THEN [health |-> [Status |-> Healthy, FailingStreak |-> 0],
          teardown |-> FALSE, early |-> FALSE]
    ELSE IF ~still
    THEN LET streak == cur.FailingStreak + 1
         IN  [health |-> IF streak >= Retries
                         THEN [Status |-> Unhealthy, FailingStreak |-> 0]
                         ELSE [Status |-> cur.Status, FailingStreak |-> streak],
              teardown |-> FALSE, early |-> FALSE]
    ELSE [health |-> cur, teardown |-> FALSE, early |-> FALSE]

\* HealthIntervalWorkflow going Unhealthy on the first counted failure
HealthIntervalWorkflow_NoRetries(cur, hcResult, still, Retries) ==
    IF hcResult.ExitCode = 0
    THEN [health |-> [Status |-> Healthy, FailingStreak |-> 0],
          teardown |-> FALSE, early |-> FALSE]
    ELSE IF ~still
    THEN [health |-> [Status |-> Unhealthy, FailingStreak |-> cur.FailingStreak + 1],
          teardown |-> FALSE, early |-> FALSE]
    ELSE [health |-> cur, teardown |-> FALSE, early |-> FALSE]

\* HealthIntervalWorkflow counting only the failures of probes that ran to their
\* end (a positive exit code), not the results with ExitCode -1
HealthIntervalWorkflow_SentinelIgnored(cur, hcResult, still, Retries) ==
    IF hcResult.ExitCode = 0
    THEN [health |-> [Status |-> Healthy, FailingStreak |-> 0],
          teardown |-> FALSE, early |-> FALSE]
    ELSE IF ~still /\ hcResult.ExitCode > 0
    THEN LET streak == cur.FailingStreak + 1
         IN  [health |-> [Status |-> IF streak >= Retries THEN Unhealthy ELSE cur.Status,
                          FailingStreak |-> streak],
              teardown |-> FALSE, early |-> FALSE]
    ELSE [health |-> cur, teardown |-> FALSE, early |-> FALSE]

\* HealthIntervalWorkflow not counting the failures of an Unhealthy container
HealthIntervalWorkflow_StopsAtUnhealthy(cur, hcResult, still, Retries) ==
    IF hcResult.ExitCode = 0
    THEN [health |-> [Status |-> Healthy, FailingStreak |-> 0],
          teardown |-> FALSE, early |-> FALSE]
    ELSE IF ~still /\ cur.Status # Unhealthy
    THEN LET streak == cur.FailingStreak + 1
         IN  [health |-> [Status |-> IF streak >= Retries THEN Unhealthy ELSE cur.Status,
                          FailingStreak |-> streak],
              teardown |-> FALSE, early |-> FALSE]
    ELSE [health |-> cur, teardown |-> FALSE, early |-> FALSE]

\* HealthIntervalWorkflow going back to Starting on a counted failure below Retries
HealthIntervalWorkflow_FailureToStarting(cur, hcResult, still, Retries) ==
    IF hcResult.ExitCode = 0
    THEN [health |-> [Status |-> Healthy, FailingStreak |-> 0],
          teardown |-> FALSE, early |-> FALSE]
    ELSE IF ~still
    THEN LET streak == cur.FailingStreak + 1
         IN  [health |-> [Status |-> IF streak >= Retries THEN Unhealthy ELSE Starting,
                          FailingStreak |-> streak],
              teardown |-> FALSE, early |-> FALSE]
    ELSE [health |-> cur, teardown |-> FALSE, early |-> FALSE]

\* HealthIntervalWorkflow resetting the streak on a success and leaving Unhealthy
HealthIntervalWorkflow_SuccessKeepsUnhealthy(cur, hcResult, still, Retries) ==
    IF hcResult.ExitCode = 0
    THEN [health |-> [Status |-> IF cur.Status = Unhealthy THEN Unhealthy ELSE Healthy,
                      FailingStreak |-> 0],
          teardown |-> FALSE, early |-> FALSE]
    ELSE IF ~still
    THEN LET streak == cur.FailingStreak + 1
         IN  [health |-> [Status |-> IF streak >= Retries THEN Unhealthy ELSE cur.Status,
                          FailingStreak |-> streak],
              teardown |-> FALSE, early |-> FALSE]
    ELSE [health |-> cur, teardown |-> FALSE, early |-> FALSE]

\* HealthIntervalWorkflow counting a failure twice
HealthIntervalWorkflow_CountsTwice(cur, hcResult, still, Retries) ==
    IF hcResult.ExitCode = 0
    THEN [health |-> [Status |-> Healthy, FailingStreak |-> 0],
          teardown |-> FALSE, early |-> FALSE]
    ELSE IF ~still
    THEN LET streak == cur.FailingStreak + 2
         IN  [health |-> [Status |-> IF streak >= Retries THEN Unhealthy ELSE cur.Status,
                          FailingStreak |-> streak],
              teardown |-> FALSE, early |-> FALSE]
    ELSE [health |-> cur, teardown |-> FALSE, early |-> FALSE]

HealthIntervalWorkflow(cur, hcResult, still, Retries) ==
    IF hcResult.ExitCode = 0
    THEN [health |-> [Status |-> Healthy, FailingStreak |-> 0],
          teardown |-> FALSE, early |-> FALSE]
    ELSE IF ~still
    THEN LET streak == cur.FailingStreak + 1
         IN  [health |-> [Status |-> IF streak >= Retries THEN Unhealthy ELSE cur.Status,
                          FailingStreak |-> streak],
              teardown |-> FALSE, early |-> FALSE]
    ELSE [health |-> cur, teardown |-> FALSE, early |-> FALSE]

\* env is what the collaborators do in this call: "ok", or the one call that fails
EnvOutcomes == {"ok", "readErr", "infoErr", "writeStateErr", "writeLogErr"}

\* updateHealthStatus taking every workflow that is not start-period for the
\* health-interval one
updateHealthStatus_UnknownAsInterval(label, log, hcConfig, hcResult, wfType, env) ==
    LET same == [label |-> label, log |-> log, teardown |-> FALSE, ran |-> FALSE,
                 writes |-> << >>]
        cur == currentHealth(label)
        still == stillInStartPeriod(hcConfig, hcResult)
        w == IF wfType = WorkflowStartPeriod
             THEN StartPeriodWorkflow(cur, hcResult, still)
             ELSE HealthIntervalWorkflow(cur, hcResult, still, hcConfig.Retries)
    IN  IF env = "readErr"
        THEN same @@ [err |-> "failed to read health state from labels"]
        ELSE IF env = "infoErr"
        THEN same @@ [err |-> "failed to get container info"]
        ELSE IF w.early
        THEN [label |-> label, log |-> log, teardown |-> w.teardown, ran |-> TRUE,
              writes |-> << >>, err |-> "nil"]
        ELSE IF env = "writeStateErr"
        THEN [label |-> label, log |-> log, teardown |-> w.teardown, ran |-> TRUE,
              writes |-> <<"state">>,
              err |-> "failed to write health state to labels"]
        ELSE IF env = "writeLogErr"
        THEN [label |-> writeHealthStateToLabels(label, w.health), log |-> log,
              teardown |-> w.teardown, ran |-> TRUE, writes |-> <<"state", "log">>,
              err |-> "failed to write health log"]
        ELSE [label |-> writeHealthStateToLabels(label, w.health),
              log |-> writeHealthLog(log, hcResult),
              teardown |-> w.teardown, ran |-> TRUE, writes |-> <<"state", "log">>,
              err |-> "nil"]

\* updateHealthStatus going on to the health log after the state write failed
updateHealthStatus_LogDespiteStateError(label, log, hcConfig, hcResult, wfType, env) ==
    LET same == [label |-> label, log |-> log, teardown |-> FALSE, ran |-> FALSE,
                 writes |-> << >>]
        cur == currentHealth(label)
        still == stillInStartPeriod(hcConfig, hcResult)
        w == IF wfType = WorkflowStartPeriod
             THEN StartPeriodWorkflow(cur, hcResult, still)
             ELSE HealthIntervalWorkflow(cur, hcResult, still, hcConfig.Retries)
    IN  IF env = "readErr"
        THEN same @@ [err |-> "failed to read health state from labels"]
        ELSE IF env = "infoErr"
        THEN same @@ [err |-> "failed to get container info"]
        ELSE IF wfType \notin {WorkflowStartPeriod, WorkflowHealthInterval}
        THEN same @@ [err |-> "unknown workflow type"]
        ELSE IF w.early
        THEN [label |-> label, log |-> log, teardown |-> w.teardown, ran |-> TRUE,
              writes |-> << >>, err |-> "nil"]
        ELSE IF env = "writeStateErr"
        THEN [label |-> label, log |-> writeHealthLog(log, hcResult),
              teardown |-> w.teardown, ran |-> TRUE,
              writes |-> <<"state", "log">>,
              err |-> "failed to write health state to labels"]
        ELSE IF env = "writeLogErr"
        THEN [label |-> writeHealthStateToLabels(label, w.health), log |-> log,
              teardown |-> w.teardown, ran |-> TRUE, writes |-> <<"state", "log">>,
              err |-> "failed to write health log"]
        ELSE [label |-> writeHealthStateToLabels(label, w.health),
              log |-> writeHealthLog(log, hcResult),
              teardown |-> w.teardown, ran |-> TRUE, writes |-> <<"state", "log">>,
              err |-> "nil"]

\* writes is the sequence of the writes the call attempted, in their order
updateHealthStatus(label, log, hcConfig, hcResult, wfType, env) ==
    LET same == [label |-> label, log |-> log, teardown |-> FALSE, ran |-> FALSE,
                 writes |-> << >>]
        cur == currentHealth(label)
        still == stillInStartPeriod(hcConfig, hcResult)
        w == IF wfType = WorkflowStartPeriod
             THEN StartPeriodWorkflow(cur, hcResult, still)
             ELSE HealthIntervalWorkflow(cur, hcResult, still, hcConfig.Retries)
    IN  IF env = "readErr"
        THEN same @@ [err |-> "failed to read health state from labels"]
        ELSE IF env = "infoErr"
        THEN same @@ [err |-> "failed to get container info"]
        ELSE IF wfType \notin {WorkflowStartPeriod, WorkflowHealthInterval}
        THEN same @@ [err |-> "unknown workflow type"]
        ELSE IF w.early
        THEN [label |-> label, log |-> log, teardown |-> w.teardown, ran |-> TRUE,
              writes |-> << >>, err |-> "nil"]
        ELSE IF env = "writeStateErr"
        THEN [label |-> label, log |-> log, teardown |-> w.teardown, ran |-> TRUE,
              writes |-> <<"state">>,
              err |-> "failed to write health state to labels"]
        ELSE IF env = "writeLogErr"
        THEN [label |-> writeHealthStateToLabels(label, w.health), log |-> log,
              teardown |-> w.teardown, ran |-> TRUE, writes |-> <<"state", "log">>,
              err |-> "failed to write health log"]
        ELSE [label |-> writeHealthStateToLabels(label, w.health),
              log |-> writeHealthLog(log, hcResult),
              teardown |-> w.teardown, ran |-> TRUE, writes |-> <<"state", "log">>,
              err |-> "nil"]

(***************************************************************************)
(* The systemd timers of a container (healthcheck_manager_linux.go).  A    *)
(* transient unit is kept by its unit name, with the state of its .timer   *)
(* and of its .service and the workflow flag of the command it runs.       *)
(***************************************************************************)
ContainerID == <<"c1">>


hcUnitNameWithType(containerID, wfType, bare) ==
    LET unit == IF wfType = WorkflowStartPeriod THEN containerID \o <<"-start">>
                ELSE containerID
    IN  IF ~bare THEN unit \o <<"-", "rand">> ELSE unit

UnitNames == {ContainerID, ContainerID \o <<"-start">>}
NoUnit == [timer |-> "absent", service |-> "absent", flag |-> "none"]

\* what the environment does in one call to systemd
CreateOutcomes == {"ok", "dbusErr", "runErr"}
StartOutcomes == {"ok", "dbusErr", "restartErr", "notDone"}
RemoveOutcomes == {"ok", "dbusErr", "timerStopErr", "serviceStopErr"}

\* the workflow flag of the command of a timer
timerFlag(wfType) ==
    IF wfType = WorkflowHealthInterval THEN "--health"
    ELSE IF wfType = WorkflowStartPeriod THEN "--start-period"
    ELSE "none"

\* systemd-run of a transient timer: it fails when the unit exists already
createTimerForWorkflow(u, containerID, wfType, outcome) ==
    LET hcName == hcUnitNameWithType(containerID, wfType, TRUE)
    IN  IF outcome = "dbusErr"
        THEN [units |-> u, err |-> "systemd DBUS connect error"]
        ELSE IF outcome = "runErr" \/ u[hcName] # NoUnit
        THEN [units |-> u, err |-> "systemd-run failed"]
        ELSE [units |-> [u EXCEPT ![hcName] = [timer |-> "active", service |-> "loaded",
                                               flag |-> timerFlag(wfType)]],
              err |-> "nil"]

\* RestartUnit of the .service: it fails when there is no such unit
startTimerForWorkflow(u, containerID, wfType, outcome) ==
    LET unitName == hcUnitNameWithType(containerID, wfType, TRUE)
    IN  IF outcome = "dbusErr"
        THEN [units |-> u, err |-> "systemd DBUS connect error"]
        ELSE IF outcome = "restartErr" \/ u[unitName].service = "absent"
        THEN [units |-> u, err |-> "restart failed"]
        ELSE IF outcome = "notDone"
        THEN [units |-> u, err |-> "unexpected systemd restart result"]
        ELSE [units |-> [u EXCEPT ![unitName].service = "started"], err |-> "nil"]

\* the two StopUnit calls, the error of each dropped; a unit of which nothing is
\* left is gone
removeTimerForWorkflow(u, on, containerID, wfType, outcome) ==
    LET unitName == hcUnitNameWithType(containerID, wfType, TRUE)
        stopped == [timer |-> IF outcome = "timerStopErr" THEN u[unitName].timer
                              ELSE "absent",
                    service |-> IF outcome = "serviceStopErr" THEN u[unitName].service
                                ELSE "absent",
                    flag |-> u[unitName].flag]
    IN  IF ~on THEN [units |-> u, err |-> "nil"]
        ELSE IF outcome = "dbusErr"
        THEN [units |-> u, err |-> "systemd DBUS connect error"]
        ELSE [units |-> [u EXCEPT ![unitName] =
                            IF stopped.timer = "absent" /\ stopped.service = "absent"
                            THEN NoUnit ELSE stopped],
              err |-> "nil"]

\* RemoveStartPeriodTimer stopping the units of the health-interval workflow
RemoveStartPeriodTimer_HealthInterval(u, on, containerID, outcome) ==
    removeTimerForWorkflow(u, on, containerID, WorkflowHealthInterval, outcome)

RemoveStartPeriodTimer(u, on, containerID, outcome) ==
    removeTimerForWorkflow(u, on, containerID, WorkflowStartPeriod, outcome)

\* shouldSkipHealthCheckSystemd without the test of the interval
shouldSkipHealthCheckSystemd_IgnoresInterval(hcConfig, on) ==
    \/ ~on
    \/ Len(hcConfig.Test) = 0
    \/ hcConfig.Test[1] = <<"NONE">>

shouldSkipHealthCheckSystemd(hcConfig, on) ==
    \/ ~on
    \/ Len(hcConfig.Test) = 0
    \/ hcConfig.Test[1] = <<"NONE">>
    \/ hcConfig.Interval = 0

createHealthIntervalTimer(u, labelled, on, hcConfig, outcome) ==
    IF ~labelled \/ shouldSkipHealthCheckSystemd(hcConfig, on)
    THEN [units |-> u, err |-> "nil"]
    ELSE createTimerForWorkflow(u, ContainerID, WorkflowHealthInterval, outcome)

\* createStartPeriodTimer creating the timer whatever the start period
createStartPeriodTimer_Always(u, labelled, on, hcConfig, outcome) ==
    IF ~labelled \/ shouldSkipHealthCheckSystemd(hcConfig, on)
    THEN [units |-> u, err |-> "nil"]
    ELSE createTimerForWorkflow(u, ContainerID, WorkflowStartPeriod, outcome)

createStartPeriodTimer(u, labelled, on, hcConfig, outcome) ==
    IF ~labelled \/ shouldSkipHealthCheckSystemd(hcConfig, on)
    THEN [units |-> u, err |-> "nil"]
    ELSE IF hcConfig.StartPeriod = 0
    THEN [units |-> u, err |-> "nil"]
    ELSE createTimerForWorkflow(u, ContainerID, WorkflowStartPeriod, outcome)

(***************************************************************************)
(* The state after construction: a container that has just been created,   *)
(* with a health check configured and no health state label yet.           *)
(***************************************************************************)
TestVectors ==
    { <<CmdNone>>, <<CmdShell, << >> >>, <<CmdShell, <<"x">> >> }

Configs ==
    [Test : TestVectors, Timeout : {1}, Interval : {1},
     StartPeriod : 0..MaxStartPeriod, Retries : 1..MaxRetries]

\* invocations that overlap: each is a tick with its own locals (where it is,
\* its workflow, its probe result, the health state it read)
MaxTicks == 3
TickIds == {1, 2}
NoTick == [pc |-> "idle", wf |-> "none", result |-> NoResult, read |-> NoLabel]

\* history of the ticks: how many have started, whether one has persisted
\* Healthy or Unhealthy, how many failing health-interval ticks outside the
\* start period have completed (-1 once there is a tick of another kind),
\* and whether a tick has read the state between the read and the write of another
NoTickHist == [started |-> 0, left |-> FALSE, failed |-> 0, overlapped |-> FALSE]

NoCli == [health |-> FALSE, startPeriod |-> FALSE, err |-> "not called", called |-> "none"]

\* no timer has been created, the command has not been run, no tick overlaps
\* with another, and the buffer on the side is empty
InitElsewhere ==
    /\ systemdOn = TRUE
    /\ hcLabelled = TRUE
    /\ units = [n \in UnitNames |-> NoUnit]
    /\ createRet = "not called"
    /\ startRet = "not called"
    /\ cli = NoCli
    /\ ticks = [t \in TickIds |-> NoTick]
    /\ tickHist = NoTickHist
    /\ rb = NewResizableBufferOf(0)
    /\ rbWritten = << >>

NoUpdate == [teardown |-> FALSE, ran |-> FALSE, writes |-> << >>, err |-> "not called"]

InitRest ==
    /\ hc \in Configs
    /\ now = CreatedAt
    /\ healthLog = << >>
    /\ pc = "idle"
    /\ workflowType = WorkflowHealthInterval
    /\ startTime = 0
    /\ timerStart = 0
    /\ proc = "none"
    /\ procExit = NoExit
    /\ outputBuf = NewResizableBuffer
    /\ killSent = FALSE
    /\ exitTaken = FALSE
    /\ ioClosed = FALSE
    /\ result = NoResult
    /\ ret = "not called"
    /\ upd = NoUpdate
    /\ prevLabel = NoLabel
    /\ probeErr = "not called"
    /\ processSpec = NoSpec
    /\ InitElsewhere

Init == healthLabel = NoLabel /\ failRun = 0 /\ InitRest

\* the same container found with any health state label already written (by
\* earlier invocations, or by invocations that overlap with the one followed here)
HealthStates == [Status : StatusValues, FailingStreak : 0..MaxStreak]

InitAny == healthLabel \in {NoLabel} \cup HealthStates /\ failRun = -1 /\ InitRest

\* the same container with each shape of Test the command resolution tells apart,
\* under one schedule (no start period, one retry)
CmdTests ==
    { << >>, <<TestNone>>, <<CmdNone>>, <<CmdNone, <<"x">> >>,
      <<CmdShell>>, <<CmdShell, << >> >>, <<CmdShell, <<Space>> >>,
      <<CmdShell, <<Space, Space>> >>, <<CmdShell, <<"x">> >>,
      <<Cmd>>, <<Cmd, << >> >>, <<Cmd, <<Space>> >>, <<Cmd, <<"x">> >>,
      << <<Space>> >>, << <<"x">> >>,
      <<CmdShell, <<"x">>, <<"y">> >>, <<Cmd, <<"x">>, <<"y">> >>,
      << <<"x">>, <<"y">> >> }

CmdConfigs ==
    [Test : CmdTests, Timeout : {1}, Interval : {1}, StartPeriod : {0}, Retries : {1}]

InitCmd ==
    /\ hc \in CmdConfigs
    /\ now = CreatedAt
    /\ healthLabel = NoLabel
    /\ healthLog = << >>
    /\ pc = "idle"
    /\ workflowType = WorkflowHealthInterval
    /\ startTime = 0
    /\ timerStart = 0
    /\ proc = "none"
    /\ procExit = NoExit
    /\ outputBuf = NewResizableBuffer
    /\ killSent = FALSE
    /\ exitTaken = FALSE
    /\ ioClosed = FALSE
    /\ result = NoResult
    /\ ret = "not called"
    /\ upd = NoUpdate
    /\ prevLabel = NoLabel
    /\ probeErr = "not called"
    /\ processSpec = NoSpec
    /\ failRun = 0
    /\ InitElsewhere

(***************************************************************************)
(* The environment: the clock and the probe process.                       *)
(***************************************************************************)
Tick ==
    /\ now < MaxTime
    /\ now' = now + 1
    /\ UNCHANGED << hc, processSpec, cli, systemdOn, hcLabelled, createRet, startRet, ticks, tickHist, rb,
                    rbWritten, healthLabel, healthLog, units, pc, workflowType, startTime, timerStart,
                    proc, procExit, outputBuf, killSent, exitTaken, ioClosed, result,
                    ret, probeErr, upd, failRun, prevLabel >>

\* the probe writes a byte to its stdout or stderr
ProbeWrites ==
    /\ proc = "running"
    /\ \E b \in Bytes : outputBuf' = BufferWrite(outputBuf, b)
    /\ UNCHANGED << hc, processSpec, cli, systemdOn, hcLabelled, createRet, startRet, ticks, tickHist, rb,
                    rbWritten, now, healthLabel, healthLog, units, pc, workflowType, startTime,
                    timerStart, proc, procExit, killSent, exitTaken, ioClosed, result,
                    ret, probeErr, upd, failRun, prevLabel >>

\* the probe ends on its own
ProbeExits ==
    /\ proc = "running"
    /\ \E code \in ProbeExitCodes :
          procExit' = [code |-> code, natural |-> TRUE]
    /\ proc' = "exited"
    /\ UNCHANGED << hc, processSpec, cli, systemdOn, hcLabelled, createRet, startRet, ticks, tickHist, rb,
                    rbWritten, now, healthLabel, healthLog, units, pc, workflowType, startTime,
                    timerStart, outputBuf, killSent, exitTaken, ioClosed, result,
                    ret, probeErr, upd, failRun, prevLabel >>

(***************************************************************************)
(* ExecuteHealthCheck.                                                     *)
(***************************************************************************)
\* Finish returning the error of the update in place of the error of the probe
Finish_UpdateErrorWins(hcResult, err) ==
    \E env \in EnvOutcomes :
        LET u == updateHealthStatus(healthLabel, healthLog, hc, hcResult,
                                    workflowType, env)
        IN  \E removal \in (IF u.teardown THEN RemoveOutcomes ELSE {"ok"}) :
            /\ healthLabel' = u.label
            /\ units' = IF u.teardown
                         THEN RemoveStartPeriodTimer(units, systemdOn, ContainerID,
                                                     removal).units
                         ELSE units
            /\ healthLog' = u.log
            /\ upd' = [teardown |-> u.teardown, ran |-> u.ran, writes |-> u.writes,
                        err |-> u.err]
            /\ result' = hcResult
            /\ probeErr' = err
            /\ ret' = IF u.err # "nil" THEN "failed to update health status"
                      ELSE IF err # "nil" THEN "health check probe failed"
                      ELSE "nil"
            /\ failRun' = IF /\ failRun >= 0
                             /\ workflowType = WorkflowHealthInterval
                             /\ hcResult.ExitCode # 0
                             /\ ~stillInStartPeriod(hc, hcResult)
                             /\ u.err = "nil"
                          THEN failRun + 1
                          ELSE -1
            /\ prevLabel' = healthLabel
            /\ pc' = "idle"
            \* the locals of the call are gone
            /\ startTime' = 0
            /\ timerStart' = 0

\* Finish returning the error of RemoveStartPeriodTimer
Finish_TeardownErrorFails(hcResult, err) ==
    \E env \in EnvOutcomes :
        LET u == updateHealthStatus(healthLabel, healthLog, hc, hcResult,
                                    workflowType, env)
        IN  \E removal \in (IF u.teardown THEN RemoveOutcomes ELSE {"ok"}) :
            /\ healthLabel' = u.label
            /\ units' = IF u.teardown
                         THEN RemoveStartPeriodTimer(units, systemdOn, ContainerID,
                                                     removal).units
                         ELSE units
            /\ healthLog' = u.log
            /\ upd' = [teardown |-> u.teardown, ran |-> u.ran, writes |-> u.writes,
                        err |-> u.err]
            /\ result' = hcResult
            /\ probeErr' = err
            /\ ret' = IF err # "nil" THEN "health check probe failed"
                      ELSE IF u.err # "nil" THEN "failed to update health status"
                      ELSE IF u.teardown /\ systemdOn /\ removal = "dbusErr"
                      THEN "failed to update health status"
                      ELSE "nil"
            /\ failRun' = IF /\ failRun >= 0
                             /\ workflowType = WorkflowHealthInterval
                             /\ hcResult.ExitCode # 0
                             /\ ~stillInStartPeriod(hc, hcResult)
                             /\ u.err = "nil"
                          THEN failRun + 1
                          ELSE -1
            /\ prevLabel' = healthLabel
            /\ pc' = "idle"
            \* the locals of the call are gone
            /\ startTime' = 0
            /\ timerStart' = 0

\* the rest of ExecuteHealthCheck once probeHealthCheck has returned: the update of
\* the health status with the result, and the return.  err is "nil" or the
\* error of probeHealthCheck.
Finish(hcResult, err) ==
    \E env \in EnvOutcomes :
        LET u == updateHealthStatus(healthLabel, healthLog, hc, hcResult,
                                    workflowType, env)
        IN  \E removal \in (IF u.teardown THEN RemoveOutcomes ELSE {"ok"}) :
            /\ healthLabel' = u.label
            /\ units' = IF u.teardown
                         THEN RemoveStartPeriodTimer(units, systemdOn, ContainerID,
                                                     removal).units
                         ELSE units
            /\ healthLog' = u.log
            /\ upd' = [teardown |-> u.teardown, ran |-> u.ran, writes |-> u.writes,
                        err |-> u.err]
            /\ result' = hcResult
            /\ probeErr' = err
            /\ ret' = IF err # "nil" THEN "health check probe failed"
                      ELSE IF u.err # "nil" THEN "failed to update health status"
                      ELSE "nil"
            /\ failRun' = IF /\ failRun >= 0
                             /\ workflowType = WorkflowHealthInterval
                             /\ hcResult.ExitCode # 0
                             /\ ~stillInStartPeriod(hc, hcResult)
                             /\ u.err = "nil"
                          THEN failRun + 1
                          ELSE -1
            /\ prevLabel' = healthLabel
            /\ pc' = "idle"
            \* the locals of the call are gone
            /\ startTime' = 0
            /\ timerStart' = 0

\* the result recorded when the probe could not be run
ErrorResult(msg) ==
    [Start |-> startTime, End |-> now, ExitCode |-> -1, Output |-> <<msg>>]

\* the call, the command resolution, and startTime
ExecuteHealthCheckWith(wf) ==
    /\ pc = "idle"
    /\ StateOf(healthLabel).FailingStreak < MaxStreak
    /\ \E specOk \in BOOLEAN :
        LET prepared == prepareProcessSpec(hc.Test, specOk)
        IN  /\ workflowType' = wf
            /\ processSpec' = IF prepared.kind = "spec" THEN [Args |-> prepared.Args]
                               ELSE NoSpec
            /\ probeErr' = "not called"
            /\ result' = NoResult
            /\ upd' = NoUpdate
            /\ proc' = "none"
            /\ procExit' = NoExit
            /\ outputBuf' = NewResizableBuffer
            /\ killSent' = FALSE
            /\ exitTaken' = FALSE
            /\ ioClosed' = FALSE
            /\ timerStart' = 0
            /\ IF prepared.kind = "panic"
               THEN /\ ret' = "panic: index out of range"
                    /\ pc' = "idle"
                    /\ startTime' = 0
               ELSE IF prepared.kind = "error"
               THEN /\ ret' = prepared.err
                    /\ pc' = "idle"
                    /\ startTime' = 0
               ELSE IF prepared.kind = "skip"
               THEN /\ ret' = "nil"
                    /\ pc' = "idle"
                    /\ startTime' = 0
               ELSE /\ ret' = "running"
                    /\ pc' = "exec"
                    /\ startTime' = now
    /\ UNCHANGED << hc, systemdOn, hcLabelled, createRet, startRet, ticks, tickHist, rb,
                    rbWritten, now, healthLabel, healthLog, units, failRun, prevLabel >>

\* ExecuteHealthCheck called with any workflow string
ExecuteHealthCheck ==
    /\ \E wf \in WorkflowTypes : ExecuteHealthCheckWith(wf)
    /\ UNCHANGED cli

(***************************************************************************)
(* probeHealthCheck.                                                       *)
(***************************************************************************)
\* task.Exec
TaskExec ==
    /\ pc = "exec"
    /\ \/ /\ proc' = "created"
          /\ pc' = "start"
          /\ UNCHANGED << healthLabel, healthLog, units, result, ret, probeErr, upd, failRun,
                          prevLabel, startTime, timerStart >>
       \/ /\ Finish(ErrorResult("exec error"), "exec error")
          /\ UNCHANGED proc
    /\ UNCHANGED << hc, processSpec, cli, systemdOn, hcLabelled, createRet, startRet, ticks, tickHist, rb,
                    rbWritten, now, workflowType, procExit, outputBuf, killSent, exitTaken,
                    ioClosed >>

\* process.Start
ProcessStart ==
    /\ pc = "start"
    /\ \/ /\ proc' = "running"
          /\ pc' = "wait"
          /\ UNCHANGED << healthLabel, healthLog, units, result, ret, probeErr, upd, failRun,
                          prevLabel, startTime, timerStart >>
       \/ /\ Finish(ErrorResult("start error"), "start error")
          /\ UNCHANGED proc
    /\ UNCHANGED << hc, processSpec, cli, systemdOn, hcLabelled, createRet, startRet, ticks, tickHist, rb,
                    rbWritten, now, workflowType, procExit, outputBuf, killSent, exitTaken,
                    ioClosed >>

\* process.Wait, and the select armed with time.After(hc.Timeout)
ProcessWait ==
    /\ pc = "wait"
    /\ \/ /\ pc' = "select"
          /\ timerStart' = now
          /\ UNCHANGED << healthLabel, healthLog, units, result, ret, probeErr, upd, failRun,
                          prevLabel, startTime >>
       \/ Finish(ErrorResult("failed to wait for health check"),
                 "failed to wait for health check")
    /\ UNCHANGED << hc, processSpec, cli, systemdOn, hcLabelled, createRet, startRet, ticks, tickHist, rb,
                    rbWritten, now, workflowType, proc, procExit, outputBuf, killSent,
                    exitTaken, ioClosed >>

\* SelectTimeout with a timer that fires one unit of time early
SelectTimeout_Early ==
    /\ pc = "select"
    /\ now - timerStart >= hc.Timeout - 1
    /\ killSent' = TRUE
    /\ \E delivered \in BOOLEAN :
          IF proc = "running" /\ delivered
          THEN /\ proc' = "exited"
               /\ procExit' = [code |-> 137, natural |-> FALSE]
          ELSE UNCHANGED << proc, procExit >>
    /\ pc' = "drain"
    /\ UNCHANGED << hc, processSpec, cli, systemdOn, hcLabelled, createRet, startRet, ticks, tickHist, rb,
                    rbWritten, now, healthLabel, healthLog, units, workflowType, startTime,
                    timerStart, outputBuf, exitTaken, ioClosed, result, ret, probeErr, upd,
                    failRun, prevLabel >>

\* the timeout case of the select is taken: process.Kill(ctx, SIGKILL), its error
\* dropped.  A kill that is delivered ends a running process.
SelectTimeout ==
    /\ pc = "select"
    /\ now - timerStart >= hc.Timeout
    /\ killSent' = TRUE
    /\ \E delivered \in BOOLEAN :
          IF proc = "running" /\ delivered
          THEN /\ proc' = "exited"
               /\ procExit' = [code |-> 137, natural |-> FALSE]
          ELSE UNCHANGED << proc, procExit >>
    /\ pc' = "drain"
    /\ UNCHANGED << hc, processSpec, cli, systemdOn, hcLabelled, createRet, startRet, ticks, tickHist, rb,
                    rbWritten, now, healthLabel, healthLog, units, workflowType, startTime,
                    timerStart, outputBuf, exitTaken, ioClosed, result, ret, probeErr, upd,
                    failRun, prevLabel >>

\* msg of the timeout case without the captured output
TimeoutMessage_DropsOutput(timeout, out) ==
    <<"Health check exceeded timeout", " (", timeout, ")">>

\* msg of the timeout case
TimeoutMessage(timeout, out) ==
    IF Len(out) > 0
    THEN <<"Health check exceeded timeout", " (", timeout, ")", ": ">> \o out
    ELSE <<"Health check exceeded timeout", " (", timeout, ")">>

\* the rest of the timeout case: <-exitStatusC, IO().Wait(), IO().Close(), the
\* result, and the return through ExecuteHealthCheck
TimeoutDrain ==
    /\ pc = "drain"
    /\ proc = "exited"
    /\ exitTaken' = TRUE
    /\ ioClosed' = TRUE
    /\ Finish([Start |-> startTime, End |-> now, ExitCode |-> -1,
               Output |-> TimeoutMessage(hc.Timeout, outputBuf)], "nil")
    /\ UNCHANGED << hc, processSpec, cli, systemdOn, hcLabelled, createRet, startRet, ticks, tickHist, rb,
                    rbWritten, now, workflowType, proc, procExit, outputBuf, killSent >>

\* ExitResult telling only success from failure
ExitResult_NonZeroAsOne(exitStatus, out) ==
    [Start |-> startTime, End |-> now,
     ExitCode |-> IF exitStatus.code = 0 THEN 0 ELSE 1, Output |-> out]

\* the result of the exit case: the exit code of exitStatus.Result() and the buffer
ExitResult(exitStatus, out) ==
    [Start |-> startTime, End |-> now, ExitCode |-> exitStatus.code, Output |-> out]

\* SelectExit killing the process that has already ended
SelectExit_AlsoKills ==
    /\ pc = "select"
    /\ proc = "exited"
    /\ exitTaken' = TRUE
    /\ killSent' = TRUE
    /\ ioClosed' = TRUE
    /\ Finish(ExitResult(procExit, outputBuf), "nil")
    /\ UNCHANGED << hc, processSpec, cli, systemdOn, hcLabelled, createRet, startRet, ticks, tickHist, rb,
                    rbWritten, now, workflowType, proc, procExit, outputBuf >>

\* the exit case of the select is taken
SelectExit ==
    /\ pc = "select"
    /\ proc = "exited"
    /\ exitTaken' = TRUE
    /\ ioClosed' = TRUE
    /\ Finish(ExitResult(procExit, outputBuf), "nil")
    /\ UNCHANGED << hc, processSpec, cli, systemdOn, hcLabelled, createRet, startRet, ticks, tickHist, rb,
                    rbWritten, now, workflowType, proc, procExit, outputBuf, killSent >>

(***************************************************************************)
(* The healthcheck command (container_health_check.go).  matchCount is the *)
(* number of containers the walker finds for the argument.                 *)
(***************************************************************************)
\* the variables the command leaves alone when it returns a usage error
entryVars ==
    << hc, now, healthLabel, healthLog, pc, workflowType, startTime, timerStart, proc,
       procExit, outputBuf, killSent, exitTaken, ioClosed, result, ret, upd, failRun,
       prevLabel, probeErr, processSpec, systemdOn, hcLabelled, units, createRet,
       startRet, ticks, tickHist, rb, rbWritten >>

\* healthCheckRoute without the test for both flags: --health wins
healthCheckRoute_BothAsHealth(healthFlag, startPeriodFlag, matchCount) ==
    IF matchCount = 0
    THEN [err |-> "no such container", wf |-> "none"]
    ELSE IF matchCount > 1
    THEN [err |-> "multiple IDs found with provided prefix", wf |-> "none"]
    ELSE IF healthFlag
    THEN [err |-> "nil", wf |-> WorkflowHealthInterval]
    ELSE IF startPeriodFlag
    THEN [err |-> "nil", wf |-> WorkflowStartPeriod]
    ELSE [err |-> "workflow type must be specified (--health or --start-period)",
          wf |-> "none"]

\* the error of the command, or the workflow it calls container.HealthCheck with
healthCheckRoute(healthFlag, startPeriodFlag, matchCount) ==
    IF healthFlag /\ startPeriodFlag
    THEN [err |-> "--health and --start-period flags are mutually exclusive",
          wf |-> "none"]
    ELSE IF matchCount = 0
    THEN [err |-> "no such container", wf |-> "none"]
    ELSE IF matchCount > 1
    THEN [err |-> "multiple IDs found with provided prefix", wf |-> "none"]
    ELSE IF healthFlag
    THEN [err |-> "nil", wf |-> WorkflowHealthInterval]
    ELSE IF startPeriodFlag
    THEN [err |-> "nil", wf |-> WorkflowStartPeriod]
    ELSE [err |-> "workflow type must be specified (--health or --start-period)",
          wf |-> "none"]

\* container.HealthCheck: the call of the entry point on the container found
HealthCheck(wf) == ExecuteHealthCheckWith(wf)

\* one run of the command with the two flags; the runs are followed one at a time
healthCheckActionWith(healthFlag, startPeriodFlag) ==
    /\ pc = "idle"
    /\ \E matchCount \in 0..2 :
        LET route == healthCheckRoute(healthFlag, startPeriodFlag, matchCount)
        IN  /\ cli' = [health |-> healthFlag, startPeriod |-> startPeriodFlag,
                        err |-> route.err, called |-> route.wf]
            /\ IF route.wf = "none"
               THEN UNCHANGED entryVars
               ELSE HealthCheck(route.wf)

\* the command run by hand, with any flags
healthCheckAction ==
    \E healthFlag \in BOOLEAN, startPeriodFlag \in BOOLEAN :
        healthCheckActionWith(healthFlag, startPeriodFlag)

(***************************************************************************)
(* The timers of the container are created once and started once, by the  *)
(* commands that create and start the container; a timer that runs fires   *)
(* the healthcheck command with its flag.                                  *)
(***************************************************************************)
\* the variables the timer functions leave alone
untimedVars ==
    << hc, now, healthLabel, healthLog, pc, workflowType, startTime, timerStart, proc,
       procExit, outputBuf, killSent, exitTaken, ioClosed, result, ret, upd, failRun,
       prevLabel, probeErr, processSpec, systemdOn, hcLabelled, cli, ticks, tickHist,
       rb, rbWritten >>

CreateHealthCheckTimers ==
    /\ createRet = "not called"
    /\ \E o1 \in CreateOutcomes, o2 \in CreateOutcomes :
        IF ~hcLabelled \/ shouldSkipHealthCheckSystemd(hc, systemdOn)
        THEN createRet' = "nil" /\ units' = units
        ELSE LET r1 == createHealthIntervalTimer(units, hcLabelled, systemdOn, hc, o1)
                 r2 == createStartPeriodTimer(r1.units, hcLabelled, systemdOn, hc, o2)
             IN  IF r1.err # "nil"
                 THEN /\ createRet' = "failed to create health-interval timer"
                      /\ units' = r1.units
                 ELSE /\ createRet' = IF r2.err # "nil"
                                       THEN "failed to create start-period timer"
                                       ELSE "nil"
                      /\ units' = r2.units
    /\ UNCHANGED << untimedVars, startRet >>

StartHealthCheckTimers ==
    /\ startRet = "not called"
    /\ \E o1 \in StartOutcomes, o2 \in StartOutcomes :
        IF ~hcLabelled \/ shouldSkipHealthCheckSystemd(hc, systemdOn)
        THEN startRet' = "nil" /\ units' = units
        ELSE LET r1 == startTimerForWorkflow(units, ContainerID, WorkflowHealthInterval, o1)
                 r2 == startTimerForWorkflow(r1.units, ContainerID, WorkflowStartPeriod, o2)
             IN  IF r1.err # "nil"
                 THEN /\ startRet' = "failed to start health-interval timer"
                      /\ units' = r1.units
                 ELSE IF hc.StartPeriod > 0
                 THEN /\ startRet' = IF r2.err # "nil"
                                      THEN "failed to start start-period timer"
                                      ELSE "nil"
                      /\ units' = r2.units
                 ELSE /\ startRet' = "nil"
                      /\ units' = r1.units
    /\ UNCHANGED << untimedVars, createRet >>

\* a timer that runs starts its service: the healthcheck command with the flag
\* the timer was created with
TimerFires ==
    \E n \in UnitNames :
        /\ units[n].timer = "active"
        /\ units[n].service = "started"
        /\ healthCheckActionWith(units[n].flag = "--health",
                                 units[n].flag = "--start-period")

\* the steps of an invocation that is under way, and of its environment
ProbeNext ==
    \/ Tick
    \/ ProbeWrites
    \/ ProbeExits
    \/ TaskExec
    \/ ProcessStart
    \/ ProcessWait
    \/ SelectTimeout
    \/ TimeoutDrain
    \/ SelectExit

Next == ExecuteHealthCheck \/ ProbeNext

Spec == Init /\ [][Next]_vars

SpecAny == InitAny /\ [][Next]_vars
SpecCmd == InitCmd /\ [][Next]_vars

\* a container whose timers are yet to be created and started, on a host with or
\* without systemd, and the entry point reached through the timers only
TimerConfigs ==
    [Test : {<<CmdShell, <<"x">> >>, <<CmdNone>>, << >>}, Timeout : {1},
     Interval : {0, 1},
     StartPeriod : 0..MaxStartPeriod, Retries : {1}]

InitTimers ==
    /\ hc \in TimerConfigs
    /\ now = CreatedAt
    /\ healthLabel = NoLabel
    /\ healthLog = << >>
    /\ pc = "idle"
    /\ workflowType = WorkflowHealthInterval
    /\ startTime = 0
    /\ timerStart = 0
    /\ proc = "none"
    /\ procExit = NoExit
    /\ outputBuf = NewResizableBuffer
    /\ killSent = FALSE
    /\ exitTaken = FALSE
    /\ ioClosed = FALSE
    /\ result = NoResult
    /\ ret = "not called"
    /\ upd = NoUpdate
    /\ prevLabel = NoLabel
    /\ probeErr = "not called"
    /\ processSpec = NoSpec
    /\ failRun = 0
    /\ systemdOn \in BOOLEAN
    /\ hcLabelled \in BOOLEAN
    /\ units = [n \in UnitNames |-> NoUnit]
    /\ createRet = "not called"
    /\ startRet = "not called"
    /\ cli = NoCli
    /\ ticks = [t \in TickIds |-> NoTick]
    /\ tickHist = NoTickHist
    /\ rb = NewResizableBufferOf(0)
    /\ rbWritten = << >>

NextTimers == CreateHealthCheckTimers \/ StartHealthCheckTimers \/ TimerFires \/ ProbeNext
SpecTimers == InitTimers /\ [][NextTimers]_vars

\* a Result Buffer of some capacity and the streams writing to it; the
\* container is idle
InitBuf ==
    /\ hc \in CmdConfigs /\ hc.Test = <<CmdShell, <<"x">> >>
    /\ now = CreatedAt
    /\ healthLabel = NoLabel
    /\ healthLog = << >>
    /\ pc = "idle"
    /\ workflowType = WorkflowHealthInterval
    /\ startTime = 0
    /\ timerStart = 0
    /\ proc = "none"
    /\ procExit = NoExit
    /\ outputBuf = NewResizableBuffer
    /\ killSent = FALSE
    /\ exitTaken = FALSE
    /\ ioClosed = FALSE
    /\ result = NoResult
    /\ ret = "not called"
    /\ upd = NoUpdate
    /\ prevLabel = NoLabel
    /\ probeErr = "not called"
    /\ processSpec = NoSpec
    /\ failRun = 0
    /\ systemdOn = TRUE
    /\ hcLabelled = TRUE
    /\ units = [n \in UnitNames |-> NoUnit]
    /\ createRet = "not called"
    /\ startRet = "not called"
    /\ cli = NoCli
    /\ ticks = [t \in TickIds |-> NoTick]
    /\ tickHist = NoTickHist
    /\ rb \in {NewResizableBufferOf(maxSize) : maxSize \in 0..MaxBufSize}
    /\ rbWritten = << >>

\* a stream writes its next chunk
BufferWrites ==
    /\ \E p \in Chunks :
          /\ Len(rbWritten) + Len(p) <= MaxWritten
          /\ rb' = ResizableBufferWrite(rb, p)
          /\ rbWritten' = rbWritten \o p
    /\ UNCHANGED << hc, now, healthLabel, healthLog, pc, workflowType, startTime,
                    timerStart, proc, procExit, outputBuf, killSent, exitTaken,
                    ioClosed, result, ret, upd, failRun, prevLabel, probeErr,
                    processSpec, systemdOn, hcLabelled, units, createRet, startRet,
                    cli, ticks, tickHist >>

NextBuf == BufferWrites
SpecBuf == InitBuf /\ [][NextBuf]_vars

(***************************************************************************)
(* Overlapping ticks on one container.  A tick runs its probe, then        *)
(* updateHealthStatus reads the health state label, and later writes the   *)
(* state it computed from what it read; nothing orders the reads and the   *)
(* writes of different ticks.                                              *)
(***************************************************************************)
OverlapConfigs ==
    [Test : {<<CmdShell, <<"x">> >>}, Timeout : {1}, Interval : {1},
     StartPeriod : 0..MaxStartPeriod, Retries : 1..MaxRetries]

InitOverlap ==
    /\ hc \in OverlapConfigs
    /\ now = CreatedAt
    /\ healthLabel = NoLabel
    /\ healthLog = << >>
    /\ pc = "idle"
    /\ workflowType = WorkflowHealthInterval
    /\ startTime = 0
    /\ timerStart = 0
    /\ proc = "none"
    /\ procExit = NoExit
    /\ outputBuf = NewResizableBuffer
    /\ killSent = FALSE
    /\ exitTaken = FALSE
    /\ ioClosed = FALSE
    /\ result = NoResult
    /\ ret = "not called"
    /\ upd = NoUpdate
    /\ prevLabel = NoLabel
    /\ probeErr = "not called"
    /\ processSpec = NoSpec
    /\ failRun = 0
    /\ InitElsewhere

\* what the steps of a tick leave alone
untickedVars ==
    << hc, now, pc, workflowType, startTime, timerStart, proc, procExit, outputBuf,
       killSent, exitTaken, ioClosed, result, ret, upd, failRun, prevLabel, probeErr,
       processSpec, systemdOn, hcLabelled, createRet, startRet, cli, rb, rbWritten >>

\* a tick of one of the two timers starts (Start is taken) and its probe
\* completes with some exit code
TickProbes ==
    /\ \E t \in TickIds, wf \in {WorkflowStartPeriod, WorkflowHealthInterval},
          code \in {0, 1} :
          LET hcResult == [Start |-> now, End |-> now, ExitCode |-> code,
                           Output |-> << >>]
              counted == /\ wf = WorkflowHealthInterval /\ code # 0
                         /\ ~stillInStartPeriod(hc, hcResult)
          IN  /\ ticks[t].pc = "idle"
              /\ \A s \in TickIds : s < t => ticks[s].pc # "idle"
              /\ tickHist.started < MaxTicks
              /\ ticks' = [ticks EXCEPT ![t] = [pc |-> "probed", wf |-> wf,
                                                 result |-> hcResult, read |-> NoLabel]]
              /\ tickHist' = [tickHist EXCEPT
                                 !.started = @ + 1,
                                 !.failed = IF @ >= 0 /\ counted THEN @ ELSE -1]
    /\ UNCHANGED << healthLabel, healthLog, units >>
    /\ UNCHANGED untickedVars

\* updateHealthStatus of a tick reads the label and the container info
TickReads ==
    /\ \E t \in TickIds, env \in {"ok", "readErr", "infoErr"} :
          /\ ticks[t].pc = "probed"
          /\ IF env = "ok"
             THEN /\ ticks' = [ticks EXCEPT
                                 ![t].pc = "read",
                                 ![t].read = readHealthStateFromLabels(healthLabel)]
                  /\ tickHist' = [tickHist EXCEPT
                                     !.overlapped = @ \/ \E s \in TickIds \ {t} :
                                                            ticks[s].pc = "read"]
             ELSE /\ ticks' = [ticks EXCEPT ![t] = NoTick]
                  /\ tickHist' = [tickHist EXCEPT !.failed = -1]
    /\ UNCHANGED << healthLabel, healthLog, units >>
    /\ UNCHANGED untickedVars

\* updateHealthStatus of a tick applies its workflow to the state it read and
\* writes the label and the log, unless it returns early
TickWrites ==
    /\ \E t \in TickIds, env \in {"ok", "writeStateErr", "writeLogErr"} :
          LET u == updateHealthStatus(ticks[t].read, healthLog, hc, ticks[t].result,
                                      ticks[t].wf, env)
              stateWritten == u.writes # << >> /\ env # "writeStateErr"
          IN  /\ ticks[t].pc = "read"
              /\ healthLabel' = IF stateWritten THEN u.label ELSE healthLabel
              /\ healthLog' = u.log
              /\ \E removal \in (IF u.teardown THEN RemoveOutcomes ELSE {"ok"}) :
                    units' = IF u.teardown
                             THEN RemoveStartPeriodTimer(units, systemdOn, ContainerID,
                                                         removal).units
                             ELSE units
              /\ ticks' = [ticks EXCEPT ![t] = NoTick]
              /\ tickHist' = [tickHist EXCEPT
                                 !.left = @ \/ (stateWritten
                                                 /\ u.label.Status \in {Healthy, Unhealthy}),
                                 !.failed = IF @ >= 0 /\ env = "ok" THEN @ + 1 ELSE -1]
    /\ UNCHANGED untickedVars

NextOverlap == Tick \/ TickProbes \/ TickReads \/ TickWrites
SpecOverlap == InitOverlap /\ [][NextOverlap]_vars

\* the clock keeps running and probeHealthCheck takes every step it can take;
\* nothing makes the probe process end by itself
SpecProbeFair ==
    /\ Init /\ [][Next]_vars
    /\ WF_vars(Tick)
    /\ WF_vars(SelectTimeout) /\ WF_vars(SelectExit) /\ WF_vars(TimeoutDrain)

\* the start-period timer keeps firing and the clock keeps running
StartPeriodTick ==
    /\ ExecuteHealthCheckWith(WorkflowStartPeriod)
    /\ UNCHANGED cli

NextStartTicks == StartPeriodTick \/ ProbeNext
SpecStartTicks == Init /\ [][NextStartTicks]_vars /\ WF_vars(Tick)

(***************************************************************************)
(* The timer functions that take no workflow: CreateTimer and StartTimer   *)
(* (systemd-run of one transient unit named by the container id), and      *)
(* CreateAndStartTimer (unit files written with the command of             *)
(* buildHealthcheckCommand).  A container gets its timers from one of the  *)
(* creation functions.                                                     *)
(***************************************************************************)
\* the workflow flag of the command: "nerdctl container healthcheck <id>", none
buildHealthcheckCommand == "none"

CreateTimer ==
    /\ createRet = "not called"
    /\ \E outcome \in {"ok", "runErr"} :
        IF ~hcLabelled \/ shouldSkipHealthCheckSystemd(hc, systemdOn)
        THEN createRet' = "nil" /\ units' = units
        ELSE IF outcome = "runErr" \/ units[ContainerID] # NoUnit
        THEN createRet' = "systemd-run failed" /\ units' = units
        ELSE /\ createRet' = "nil"
             /\ units' = [units EXCEPT ![ContainerID] =
                             [timer |-> "active", service |-> "loaded",
                              flag |-> buildHealthcheckCommand]]
    /\ UNCHANGED << untimedVars, startRet >>

StartTimer ==
    /\ startRet = "not called"
    /\ \E outcome \in StartOutcomes :
        IF ~hcLabelled \/ shouldSkipHealthCheckSystemd(hc, systemdOn)
        THEN startRet' = "nil" /\ units' = units
        ELSE LET r == startTimerForWorkflow(units, ContainerID, WorkflowHealthInterval,
                                            outcome)
             IN  startRet' = r.err /\ units' = r.units
    /\ UNCHANGED << untimedVars, createRet >>

\* the unit files are written, systemd is reloaded, the timer is enabled and
\* started; the service is not started
CreateAndStartTimer ==
    /\ createRet = "not called" /\ startRet = "not called"
    /\ \E outcome \in {"ok", "dbusErr", "fileErr", "reloadErr", "startErr"} :
        IF ~hcLabelled \/ shouldSkipHealthCheckSystemd(hc, systemdOn)
        THEN createRet' = "nil" /\ units' = units
        ELSE IF outcome = "dbusErr"
        THEN createRet' = "systemd DBUS connect error" /\ units' = units
        ELSE IF outcome = "fileErr"
        THEN createRet' = "write failed" /\ units' = units
        ELSE IF outcome = "reloadErr"
        THEN createRet' = "systemd reload failed" /\ units' = units
        ELSE /\ createRet' = IF outcome = "startErr" THEN "start timer failed" ELSE "nil"
             /\ units' = [units EXCEPT ![ContainerID] =
                             [timer |-> IF outcome = "startErr" THEN "loaded"
                                        ELSE "active",
                              service |-> "loaded",
                              flag |-> buildHealthcheckCommand]]
    /\ UNCHANGED << untimedVars, startRet >>

NextAllTimers == NextTimers \/ CreateTimer \/ StartTimer \/ CreateAndStartTimer
SpecAllTimers == InitTimers /\ [][NextAllTimers]_vars

\* the entry point reached through the healthcheck command only
InitCli == InitCmd /\ hc.Test = <<CmdShell, <<"x">> >>
NextCli == healthCheckAction \/ ProbeNext
SpecCli == InitCli /\ [][NextCli]_vars

(***************************************************************************)
(* What the properties below speak of.                                     *)
(***************************************************************************)
\* the step in which an invocation hands its result to updateHealthStatus and returns
Completes == pc # "idle" /\ pc' = "idle"

\* the last invocation ran to its end with a result
Completed == pc = "idle" /\ result # NoResult

\* the persisted HealthState before and after a step, and before the last update
prior == StateOf(healthLabel)
post == StateOf(healthLabel')
prev == StateOf(prevLabel)
health == StateOf(healthLabel)

KnownWorkflow == workflowType \in {WorkflowStartPeriod, WorkflowHealthInterval}
HealthyZero == [Status |-> Healthy, FailingStreak |-> 0]

(***************************************************************************)
(* C1: a result with ExitCode 0 leaves {Healthy, 0} persisted, under       *)
(* either workflow and from any prior state (the invocation meeting no     *)
(* error).  As stated it fails: see C1_ExitZero.                            *)
(***************************************************************************)
C1_Original ==
    (Completed /\ KnownWorkflow /\ ret = "nil" /\ result.ExitCode = 0)
        => health = HealthyZero

\* C1 as amended: with ExitCode 0 and no error, a health-interval invocation
\* persists {Healthy, 0} from any prior state; a start-period invocation does so
\* when the prior Status is not Healthy and the result started inside the start
\* period, and otherwise leaves the persisted HealthState as it was.
C1_ExitZero ==
    [][(Completes /\ result'.ExitCode = 0 /\ ret' = "nil")
        => IF \/ workflowType = WorkflowHealthInterval
              \/ /\ workflowType = WorkflowStartPeriod
                 /\ prior.Status # Healthy
                 /\ stillInStartPeriod(hc, result')
           THEN post = HealthyZero
           ELSE /\ workflowType = WorkflowStartPeriod
                /\ healthLabel' = healthLabel]_vars

\* a start-period invocation whose probe succeeded past the start period has
\* returned, and the container is still Unhealthy
C1_Witness ==
    /\ Completed /\ ret = "nil" /\ result.ExitCode = 0
    /\ workflowType = WorkflowStartPeriod
    /\ ~stillInStartPeriod(hc, result)
    /\ health.Status = Unhealthy

(***************************************************************************)
(* C2: in every persisted HealthState reached from the default, Status     *)
(* Healthy implies FailingStreak 0.  As stated it fails: see C2_Healthy.   *)
(***************************************************************************)
C2_Original == health.Status = Healthy => health.FailingStreak = 0

\* C2 as amended: Status Healthy implies FailingStreak < Retries (a Healthy
\* container keeps its status while its failures are counted up to Retries).
C2_Healthy == health.Status = Healthy => health.FailingStreak < hc.Retries

\* a Healthy container has a counted failure
C2_Witness ==
    /\ Completed /\ health.Status = Healthy /\ health.FailingStreak >= 1
    /\ prev.Status = Healthy /\ result.ExitCode # 0

(***************************************************************************)
(* C3: health-interval, outside the start period, from the default state:  *)
(* after n consecutive failing ticks FailingStreak is n, and Status is     *)
(* Starting while n < Retries and Unhealthy from the Retries-th tick on.   *)
(***************************************************************************)
C3_FailingTicks ==
    failRun > 0
        => /\ health.FailingStreak = failRun
           /\ health.Status = IF failRun >= hc.Retries THEN Unhealthy ELSE Starting

\* Retries = 3: the third failing tick has flipped the status
C3_Witness ==
    /\ hc.Retries = 3 /\ failRun = 3
    /\ prev = [Status |-> Starting, FailingStreak |-> 2]
    /\ health = [Status |-> Unhealthy, FailingStreak |-> 3]

(***************************************************************************)
(* C4: a failing result (ExitCode # 0, -1 included) that started inside    *)
(* the start period leaves Status and FailingStreak as they were, under    *)
(* both workflows.                                                         *)
(***************************************************************************)
C4_GraceFailure ==
    [][(Completes /\ KnownWorkflow /\ result'.ExitCode # 0
            /\ stillInStartPeriod(hc, result'))
        => post = prior]_vars

\* a health-interval invocation that timed out inside the start period has
\* gone through the update
C4_Witness ==
    /\ Completed /\ workflowType = WorkflowHealthInterval
    /\ result.ExitCode = -1 /\ stillInStartPeriod(hc, result)
    /\ upd.ran /\ upd.err = "nil"

(***************************************************************************)
(* C5: a start-period invocation never makes the status Unhealthy and      *)
(* never increments FailingStreak, whatever the result.                    *)
(***************************************************************************)
C5_StartPeriodNeverUnhealthy ==
    [][(Completes /\ workflowType = WorkflowStartPeriod)
        => /\ post.FailingStreak <= prior.FailingStreak
           /\ (prior.Status # Unhealthy => post.Status # Unhealthy)]_vars

\* a start-period invocation with a failing result inside the start period
\* has gone through the update
C5_Witness ==
    /\ Completed /\ workflowType = WorkflowStartPeriod
    /\ result.ExitCode # 0 /\ stillInStartPeriod(hc, result)
    /\ prev.Status = Starting
    /\ upd.ran /\ upd.err = "nil"

(***************************************************************************)
(* C6: once the status is Healthy or the start period is over, every       *)
(* start-period invocation that reaches the workflow leaves the persisted  *)
(* HealthState (and the log) as it was and calls RemoveStartPeriodTimer.   *)
(***************************************************************************)
C6_StartPeriodIdempotent ==
    [][(Completes /\ workflowType = WorkflowStartPeriod /\ upd'.ran
            /\ (prior.Status = Healthy \/ ~stillInStartPeriod(hc, result')))
        => /\ healthLabel' = healthLabel
           /\ healthLog' = healthLog
           /\ upd'.teardown]_vars

\* a start-period invocation with a successful probe past the start period,
\* on a container that is not Healthy, has returned
C6_Witness ==
    /\ Completed /\ workflowType = WorkflowStartPeriod /\ upd.ran
    /\ ~stillInStartPeriod(hc, result) /\ result.ExitCode = 0
    /\ prev.Status = Starting /\ upd.teardown

(***************************************************************************)
(* C7: no step takes the persisted Status from Healthy or Unhealthy back   *)
(* to Starting.                                                            *)
(***************************************************************************)
C7_StartingNotReentered ==
    [][prior.Status # Starting => post.Status # Starting]_vars

\* an invocation has gone through the update of a container that had left
\* Starting, with a failure that was not counted
C7_Witness ==
    /\ Completed /\ upd.ran /\ upd.err = "nil"
    /\ prevLabel # NoLabel /\ prev.Status = Healthy
    /\ result.ExitCode # 0 /\ stillInStartPeriod(hc, result)

(***************************************************************************)
(* C8: a Healthy status changes only to Unhealthy, and only in a           *)
(* health-interval invocation with a failing result outside the start      *)
(* period whose incremented FailingStreak is >= Retries.                   *)
(***************************************************************************)
C8_HealthyLeftOnlyByExhaustion ==
    [][(prior.Status = Healthy /\ post.Status # Healthy)
        => /\ Completes
           /\ post.Status = Unhealthy
           /\ workflowType = WorkflowHealthInterval
           /\ result'.ExitCode # 0
           /\ ~stillInStartPeriod(hc, result')
           /\ prior.FailingStreak + 1 >= hc.Retries
           /\ post.FailingStreak = prior.FailingStreak + 1]_vars

\* a Healthy container has become Unhealthy on its second counted failure
C8_Witness ==
    /\ Completed /\ hc.Retries = 2
    /\ prev = [Status |-> Healthy, FailingStreak |-> 1]
    /\ health = [Status |-> Unhealthy, FailingStreak |-> 2]

(***************************************************************************)
(* C9: an Unhealthy status stays Unhealthy through every invocation whose  *)
(* result has ExitCode # 0 and changes only with a result of ExitCode 0.   *)
(***************************************************************************)
C9_UnhealthySticky ==
    [][(prior.Status = Unhealthy /\ post.Status # Unhealthy)
        => (Completes /\ result'.ExitCode = 0 /\ post.Status = Healthy)]_vars

\* an Unhealthy container has gone through the update with a failing result
C9_Witness ==
    /\ Completed /\ upd.ran /\ upd.err = "nil"
    /\ prev.Status = Unhealthy /\ result.ExitCode # 0
    /\ health.Status = Unhealthy

\* the message of a timed-out probe before any captured output, and the results
\* that carry it
TimeoutPrefix == <<"Health check exceeded timeout", " (", hc.Timeout, ")">>

IsTimeoutResult ==
    /\ result # NoResult
    /\ Len(result.Output) >= 1
    /\ result.Output[1] = "Health check exceeded timeout"

PastStartPeriod == result # NoResult /\ result.Start - CreatedAt >= hc.StartPeriod

(***************************************************************************)
(* C11: a probe timeout is not an error.  probeHealthCheck returns the     *)
(* timeout result (ExitCode -1) without an error, the result goes through  *)
(* updateHealthStatus like any failed probe (under health-interval outside *)
(* the start period FailingStreak grows by one, and Status is Unhealthy    *)
(* once the streak reaches Retries), and ExecuteHealthCheck returns nil    *)
(* whenever the update met no error.                                       *)
(***************************************************************************)
C11_TimeoutIsFailure ==
    (Completed /\ IsTimeoutResult)
        => /\ result.ExitCode = -1
           /\ probeErr = "nil"
           /\ upd.err # "not called"
           /\ ret = IF upd.err = "nil" THEN "nil" ELSE "failed to update health status"
           /\ (workflowType = WorkflowHealthInterval /\ upd.err = "nil" /\ PastStartPeriod)
                => /\ health.FailingStreak = prev.FailingStreak + 1
                   /\ health.Status = IF health.FailingStreak >= hc.Retries
                                       THEN Unhealthy ELSE prev.Status

\* a timeout under health-interval, outside the start period, that made the
\* container Unhealthy while the invocation returned nil
C11_Witness ==
    /\ Completed /\ IsTimeoutResult
    /\ workflowType = WorkflowHealthInterval /\ PastStartPeriod
    /\ upd.err = "nil" /\ ret = "nil"
    /\ prev.Status # Unhealthy /\ health.Status = Unhealthy

\* the errors probeHealthCheck returns
ProbeErrors == {"exec error", "start error", "failed to wait for health check"}

(***************************************************************************)
(* C12: when task.Exec, process.Start or process.Wait fails,               *)
(* ExecuteHealthCheck runs updateHealthStatus with a failed result         *)
(* (ExitCode -1, Output the text of the error, the workflow of the call),  *)
(* and then returns the error "health check probe failed" that wraps the   *)
(* error of the probe, whatever updateHealthStatus returned.               *)
(***************************************************************************)
C12_ProbeErrorReported ==
    /\ (pc = "idle" /\ ret = "health check probe failed") => probeErr \in ProbeErrors
    /\ (pc = "idle" /\ probeErr \in ProbeErrors)
        => /\ result # NoResult
           /\ result.ExitCode = -1
           /\ result.Output = <<probeErr>>
           /\ probeErr = "exec error" => proc = "none"
           /\ probeErr = "start error" => proc = "created"
           /\ probeErr = "failed to wait for health check" => proc \in {"running", "exited"}
           /\ upd.err # "not called"
           /\ ~KnownWorkflow => ~upd.ran
           /\ (workflowType = WorkflowHealthInterval /\ upd.err = "nil" /\ PastStartPeriod)
                => /\ health.FailingStreak = prev.FailingStreak + 1
                   /\ healthLog # << >>
                   /\ healthLog[Len(healthLog)].ExitCode = -1
           /\ ret = "health check probe failed"

\* process.Start failed, the update that followed failed too, and the invocation
\* returned the error of the probe
C12_Witness ==
    /\ Completed /\ probeErr = "start error"
    /\ upd.err = "failed to write health state to labels"
    /\ ret = "health check probe failed"

(***************************************************************************)
(* C13: when the exit case of the select is taken, the result has the exit *)
(* code the process ended with (a probe that exits with 3 gives ExitCode   *)
(* 3) and the whole captured buffer as Output, and no kill is sent.        *)
(***************************************************************************)
C13_ExitResult ==
    (Completed /\ probeErr = "nil" /\ ~IsTimeoutResult)
        => /\ ~killSent
           /\ proc = "exited" /\ procExit # NoExit /\ procExit.natural
           /\ exitTaken /\ ioClosed
           /\ result.ExitCode = procExit.code
           /\ result.Output = outputBuf

\* a probe that wrote output and ended with exit code 3 before the timeout
C13_Witness ==
    /\ Completed /\ probeErr = "nil" /\ ~IsTimeoutResult
    /\ procExit # NoExit /\ procExit.code = 3
    /\ result.ExitCode = 3
    /\ outputBuf # << >> /\ result.Output = outputBuf

\* no invocation has done anything beyond resolving the command: no process, no
\* result, no update, and the health state label and the health log as they were
NothingDone ==
    /\ pc = "idle"
    /\ proc = "none" /\ processSpec = NoSpec
    /\ result = NoResult /\ probeErr = "not called"
    /\ upd = NoUpdate
    /\ healthLabel = NoLabel /\ healthLog = << >>

(***************************************************************************)
(* C14: when the first element of Test is the None tag (NONE, or the empty *)
(* string), ExecuteHealthCheck spawns no process, produces no result,      *)
(* writes neither the health state nor the health log, and returns nil.    *)
(***************************************************************************)
C14_NoneSkips ==
    (hc.Test # << >> /\ hc.Test[1] \in {TestNone, CmdNone})
        => NothingDone /\ ret \in {"not called", "nil"}

\* a start-period invocation on a container whose Test is NONE has returned nil
C14_Witness ==
    /\ hc.Test = <<CmdNone>>
    /\ workflowType = WorkflowStartPeriod
    /\ ret = "nil" /\ NothingDone

\* a string that is empty or holds whitespace only
IsBlank(str) == \A i \in 1..Len(str) : str[i] = Space

(***************************************************************************)
(* C15: a CMD-SHELL Test whose second element is missing, or blank after   *)
(* trimming, makes ExecuteHealthCheck fail with the error "no health check *)
(* command specified"; no process is spawned and the health state label    *)
(* and the health log are not touched.                                     *)
(***************************************************************************)
C15_ShellWithoutCommand ==
    (/\ hc.Test # << >>
     /\ hc.Test[1] = CmdShell
     /\ (Len(hc.Test) < 2 \/ IsBlank(hc.Test[2])))
        => NothingDone /\ ret \in {"not called", "no health check command specified"}

\* an invocation on a container whose shell command is one space has failed
C15_Witness ==
    /\ hc.Test = <<CmdShell, <<Space>> >>
    /\ ret = "no health check command specified"
    /\ NothingDone

(***************************************************************************)
(* C16: after the command resolution, under the CMD tag, the CMD-SHELL tag *)
(* and no tag alike, an argument vector that is empty, or whose first      *)
(* argument is empty or blank, is rejected with the error "no health check *)
(* command specified": no process spec is produced and nothing is run.     *)
(***************************************************************************)
C16_BlankFirstArgumentRejected ==
    (/\ hc.Test # << >>
     /\ hc.Test[1] \notin {TestNone, CmdNone}
     /\ LET args == IF hc.Test[1] = Cmd THEN Tail(hc.Test)
                     ELSE IF hc.Test[1] = CmdShell
                     THEN << <<"/bin/sh">>, <<"-c">> >> \o Tail(hc.Test)
                     ELSE hc.Test
         IN  args = << >> \/ IsBlank(args[1]))
        => NothingDone /\ ret \in {"not called", "no health check command specified"}

(***************************************************************************)
(* C17: an invocation that reaches updateHealthStatus with a workflow      *)
(* other than health-interval and start-period returns an error and        *)
(* mutates nothing: the health state label and the health log after it are *)
(* those before it, and no teardown of the start-period timer is signaled. *)
(***************************************************************************)
C17_UnknownWorkflowNoMutation ==
    [][(Completes /\ ~KnownWorkflow)
        => /\ healthLabel' = healthLabel
           /\ healthLog' = healthLog
           /\ ~upd'.teardown /\ ~upd'.ran /\ upd'.writes = << >>
           /\ upd'.err # "nil"
           /\ ret' \in {"failed to update health status", "health check probe failed"}]_vars

\* a probe that succeeded under an unknown workflow: the invocation failed on the
\* workflow and no health state was written
C17_Witness ==
    /\ Completed /\ workflowType = "other"
    /\ result.ExitCode = 0
    /\ upd.err = "unknown workflow type"
    /\ ret = "failed to update health status"
    /\ healthLabel = NoLabel /\ healthLog = << >>

(***************************************************************************)
(* C18: every configuration error (a malformed or empty probe command, or  *)
(* an unknown workflow) aborts the invocation with no side effects: no     *)
(* probe process is created or started in the container, and nothing is    *)
(* written to the health state, the health log or the timers.              *)
(***************************************************************************)
C18_ConfigErrorNoSideEffects ==
    (/\ pc = "idle"
     /\ \/ ret = "no health check command specified"
        \/ upd.err = "unknown workflow type")
        => /\ proc = "none"
           /\ healthLabel = prevLabel
           /\ upd.writes = << >>
           /\ ~upd.teardown

(***************************************************************************)
(* C19, as claimed: every invocation that obtains a probe result under a   *)
(* recognized workflow and meets no error in updateHealthStatus writes the *)
(* health state and appends one entry for the result to the health log,    *)
(* the start-period invocations that change nothing included.              *)
(***************************************************************************)
C19_Original ==
    (Completed /\ KnownWorkflow /\ upd.err = "nil")
        => /\ healthLabel # NoLabel
           /\ upd.writes = <<"state", "log">>
           /\ healthLog # << >>
           /\ healthLog[Len(healthLog)].ExitCode = result.ExitCode

(***************************************************************************)
(* C19, amended: such an invocation writes the health state and appends    *)
(* one entry for the result to the health log, except under start-period   *)
(* when the container is already Healthy or the start period is over: then *)
(* it returns early, and writes neither the health state nor the log.      *)
(***************************************************************************)
C19_PersistsUnlessEarly ==
    [][(Completes /\ KnownWorkflow /\ upd'.err = "nil")
        => IF /\ workflowType = WorkflowStartPeriod
              /\ \/ prior.Status = Healthy
                 \/ result'.Start - CreatedAt >= hc.StartPeriod
           THEN /\ healthLabel' = healthLabel
                /\ healthLog' = healthLog
                /\ upd'.writes = << >>
           ELSE /\ healthLabel' # NoLabel
                /\ upd'.writes = <<"state", "log">>
                /\ Len(healthLog') = IF Len(healthLog) < MaxLogEntries
                                      THEN Len(healthLog) + 1 ELSE MaxLogEntries
                /\ healthLog'[Len(healthLog')].ExitCode = result'.ExitCode]_vars

\* a start-period invocation after the start period, on a container without a
\* health state: it returned nil and there is still no label and no log entry
C19_Witness ==
    /\ Completed /\ workflowType = WorkflowStartPeriod
    /\ PastStartPeriod
    /\ upd.ran /\ upd.err = "nil" /\ ret = "nil"
    /\ healthLabel = NoLabel /\ healthLog = << >>

(***************************************************************************)
(* C20: when the write of the health state, or the append to the health    *)
(* log, fails after a probe produced a result, ExecuteHealthCheck returns  *)
(* an error and retries nothing; the state is written before the log, and  *)
(* the log is not attempted when the write of the state failed.            *)
(***************************************************************************)
C20_WriteErrors ==
    [][Completes
        => /\ upd'.writes \in {<< >>, <<"state">>, <<"state", "log">>}
           /\ upd'.err = "failed to write health state to labels"
                => /\ upd'.writes = <<"state">>
                   /\ healthLabel' = healthLabel
                   /\ healthLog' = healthLog
                   /\ ret' # "nil"
                   /\ probeErr' = "nil" => ret' = "failed to update health status"
           /\ upd'.err = "failed to write health log"
                => /\ upd'.writes = <<"state", "log">>
                   /\ healthLabel' # NoLabel
                   /\ healthLog' = healthLog
                   /\ ret' # "nil"
                   /\ probeErr' = "nil" => ret' = "failed to update health status"]_vars

\* the health state of a failed probe was written and the append to the log
\* failed: the invocation returned the error, the label changed, the log is empty
C20_Witness ==
    /\ Completed /\ probeErr = "nil"
    /\ upd.err = "failed to write health log"
    /\ ret = "failed to update health status"
    /\ healthLabel # prevLabel
    /\ healthLog = << >>

(***************************************************************************)
(* C21: a probe takes exactly one case of the select, the timeout or the   *)
(* exit of the process.  SIGKILL is sent to the probe process if and only  *)
(* if the timeout case is taken, and nothing else is ever sent to it.      *)
(***************************************************************************)
C21_OneOutcomeKillOnTimeout ==
    [][/\ pc = "select"
          => \/ pc' = "select" /\ killSent' = killSent
             \/ pc' = "drain" /\ killSent' /\ ~killSent /\ result' = NoResult
             \/ pc' = "idle" /\ ~killSent' /\ exitTaken' /\ result' # NoResult
       /\ pc = "drain" => (killSent /\ killSent' /\ pc' \in {"drain", "idle"})
       /\ (killSent' /\ ~killSent) => (pc = "select" /\ pc' = "drain")
       /\ (Completes /\ probeErr' = "nil")
          => (killSent' <=> pc = "drain") /\ (pc \in {"select", "drain"})
       /\ (Completes /\ probeErr' # "nil") => ~killSent']_vars

\* the timeout case was taken for a probe that had ended on its own while its
\* exit was yet to be received: the kill was sent all the same, and once
C21_Witness ==
    /\ Completed /\ probeErr = "nil"
    /\ killSent /\ IsTimeoutResult
    /\ procExit # NoExit /\ procExit.natural

(***************************************************************************)
(* C27: a health-interval invocation with a failing result outside the     *)
(* start period, from any prior state {s, k}, persists FailingStreak k + 1 *)
(* and Status Unhealthy when k + 1 >= Retries, Status s otherwise; the     *)
(* streak goes on growing by one when Status is already Unhealthy.         *)
(***************************************************************************)
C27_CountedFailure ==
    [][(/\ Completes
        /\ workflowType = WorkflowHealthInterval
        /\ result'.ExitCode # 0
        /\ result'.Start - CreatedAt >= hc.StartPeriod
        /\ upd'.err = "nil")
        => /\ healthLabel' # NoLabel
           /\ healthLabel'.FailingStreak = prior.FailingStreak + 1
           /\ healthLabel'.Status = IF prior.FailingStreak + 1 >= hc.Retries
                                     THEN Unhealthy ELSE prior.Status]_vars

\* a counted failure of a container that was Unhealthy already: the streak has
\* grown beyond Retries
C27_Witness ==
    /\ Completed /\ workflowType = WorkflowHealthInterval
    /\ PastStartPeriod /\ result.ExitCode # 0 /\ upd.err = "nil"
    /\ prev.Status = Unhealthy /\ health.Status = Unhealthy
    /\ health.FailingStreak = prev.FailingStreak + 1
    /\ health.FailingStreak > hc.Retries

(***************************************************************************)
(* C30: when the exit of the probe process is received before the Timeout  *)
(* has elapsed, the probe is not reported as timed out: the timeout case   *)
(* is only taken once the Timeout has elapsed, and a select that ends      *)
(* before that returns the exit code of the process, with no kill sent.    *)
(***************************************************************************)
C30_ExitBeforeTimeout ==
    [][/\ (pc = "select" /\ pc' = "drain") => now - timerStart >= hc.Timeout
       /\ (pc = "select" /\ pc' = "idle" /\ now - timerStart < hc.Timeout)
          => /\ ~killSent'
             /\ procExit # NoExit /\ procExit.natural
             /\ result'.ExitCode = procExit.code
             /\ result'.Output = outputBuf
             /\ probeErr' = "nil"]_vars

\* a probe that failed on its own before the Timeout had elapsed: the result
\* has its exit code and a duration below the Timeout
C30_Witness ==
    /\ Completed /\ probeErr = "nil" /\ ~killSent
    /\ result.End - result.Start < hc.Timeout
    /\ procExit # NoExit /\ procExit.natural
    /\ result.ExitCode = procExit.code /\ result.ExitCode # 0

(***************************************************************************)
(* C25: the command resolution dispatches on Test[0].  With CMD the        *)
(* argument vector is the remaining elements; with CMD-SHELL it is         *)
(* "/bin/sh", "-c" and the remaining elements joined by single spaces;     *)
(* with any other first element it is the whole Test.                      *)
(***************************************************************************)
C25_Dispatch ==
    (processSpec # NoSpec /\ Len(hc.Test) <= 3)
        => LET t == hc.Test
               rest == [i \in 1..(Len(t) - 1) |-> t[i + 1]]
           IN  processSpec.Args =
                 IF t[1] = <<"CMD">> THEN rest
                 ELSE IF t[1] = <<"CMD-SHELL">>
                 THEN << <<"/bin/sh">>, <<"-c">>,
                         IF Len(t) = 2 THEN t[2] ELSE t[2] \o <<" ">> \o t[3] >>
                 ELSE t

\* a shell command of two elements has been resolved into one string
C25_Witness ==
    /\ hc.Test = <<CmdShell, <<"x">>, <<"y">> >>
    /\ processSpec # NoSpec
    /\ processSpec.Args = << <<"/bin/sh">>, <<"-c">>, <<"x", " ", "y">> >>
    /\ pc = "exec"

(***************************************************************************)
(* C22: the healthcheck command runs a workflow only when exactly one of   *)
(* --health and --start-period is set.  With both or with neither it       *)
(* returns an error and ExecuteHealthCheck is not called; --health selects *)
(* the health-interval workflow and --start-period the start-period one.   *)
(***************************************************************************)
C22_ExactlyOneFlag ==
    [][/\ (cli'.health = cli'.startPeriod)
          => /\ cli'.err # "nil" /\ cli'.called = "none"
             /\ pc' = "idle"
             /\ cli' # cli => UNCHANGED entryVars
       /\ cli'.called # "none"
          => /\ cli'.health # cli'.startPeriod
             /\ cli'.err = "nil"
             /\ cli'.called = IF cli'.health THEN "health-interval" ELSE "start-period"
       /\ (cli' # cli /\ cli'.called # "none")
          => /\ pc = "idle"
             /\ workflowType' = cli'.called
             /\ result' = NoResult /\ probeErr' = "not called"
       /\ (pc = "idle" /\ pc' # "idle")
          => /\ cli'.called # "none"
             /\ workflowType' = cli'.called
       /\ workflowType' # workflowType => workflowType' = cli'.called]_vars

\* a run with --start-period has started a probe under the start-period
\* workflow
C22_Witness ==
    /\ cli.startPeriod /\ ~cli.health /\ cli.err = "nil"
    /\ cli.called = WorkflowStartPeriod
    /\ workflowType = WorkflowStartPeriod
    /\ pc = "exec"

\* the container has a health check that the timer functions do not skip
TimersWanted ==
    /\ hcLabelled /\ systemdOn
    /\ hc.Test # << >> /\ hc.Test[1] # <<"NONE">>
    /\ hc.Interval # 0

\* the units of the two workflows
IntervalUnit == units[<<"c1">>]
StartUnit == units[<<"c1", "-start">>]

C24_TeardownOnlyStartUnits ==
    [][Completes
        => /\ IntervalUnit' = IntervalUnit
           /\ StartUnit' # StartUnit
              => /\ upd'.teardown /\ systemdOn
                 /\ StartUnit'.timer \in {"absent", StartUnit.timer}
                 /\ StartUnit'.service \in {"absent", StartUnit.service}
           /\ ~upd'.teardown => units' = units]_vars

\* both timers were created and started, an invocation signalled the teardown,
\* the start-period units are gone and the health-interval units still run
C24_Witness ==
    /\ TimersWanted /\ hc.StartPeriod > 0
    /\ createRet = "nil" /\ startRet = "nil"
    /\ Completed /\ upd.teardown
    /\ StartUnit = [timer |-> "absent", service |-> "absent", flag |-> "none"]
    /\ IntervalUnit = [timer |-> "active", service |-> "started", flag |-> "--health"]

\* the first bytes of a sequence, up to a capacity
Earliest(written, capacity) ==
    SubSeq(written, 1, IF Len(written) < capacity THEN Len(written) ELSE capacity)

(***************************************************************************)
(* C26: after any sequence of writes into the Result Buffer, the captured  *)
(* content is no longer than the capacity and is the earliest bytes        *)
(* written, in order, up to the capacity; each Write reports the whole     *)
(* chunk as written and returns no error, whether the chunk fitted or not. *)
(***************************************************************************)
C26_KeepsEarliest ==
    [][/\ rb'.maxSize = rb.maxSize
       /\ Len(ResizableBufferString(rb')) <= rb'.maxSize
       /\ ResizableBufferString(rb') = Earliest(rbWritten', rb'.maxSize)
       /\ (rb' # rb \/ rbWritten' # rbWritten)
          => (rb'.err = "nil" /\ rb'.n = Len(rbWritten') - Len(rbWritten))]_vars

\* more was written than fits, the bytes discarded differ from the bytes kept,
\* and the last Write returned no error
C26_Witness ==
    /\ rb.maxSize = 2 /\ Len(rbWritten) = 4
    /\ ResizableBufferString(rb) = <<"a", "b">>
    /\ rbWritten[3] = "b" /\ rbWritten[4] = "a"
    /\ rb.err = "nil" /\ rb.n = 2

\* no tick is under way
NoTickUnderWay == \A t \in TickIds : ticks[t].pc = "idle"

\* C28 as stated: once a tick has persisted Healthy or Unhealthy, the persisted
\* Status is not Starting
C28_Original ==
    tickHist.left => StateOf(healthLabel).Status # Starting

(***************************************************************************)
(* C28: with overlapping ticks, the persisted Status returns to Starting   *)
(* only by the write of a tick that had read the state while its Status    *)
(* was Starting, and only when a tick has read the state between the read  *)
(* and the write of another; when no tick has done so, the Status is not   *)
(* Starting once a tick has persisted Healthy or Unhealthy.                *)
(***************************************************************************)
C28_StartingOnlyByStaleWrite ==
    [][/\ (StateOf(healthLabel).Status # Starting
              /\ StateOf(healthLabel').Status = Starting)
          => /\ tickHist.overlapped
             /\ \E t \in TickIds :
                   /\ ticks[t].pc = "read" /\ ticks'[t].pc = "idle"
                   /\ StateOf(ticks[t].read).Status = Starting
       /\ (tickHist'.left /\ ~tickHist'.overlapped)
          => StateOf(healthLabel').Status # Starting]_vars

\* a tick has persisted Healthy or Unhealthy, ticks have overlapped, every tick
\* has returned and the persisted Status is Starting
C28_Witness ==
    /\ tickHist.left /\ tickHist.overlapped
    /\ NoTickUnderWay
    /\ healthLabel # NoLabel /\ healthLabel.Status = Starting

\* C29 as stated: after N failing health-interval ticks outside the start
\* period have completed, and no tick of another kind, the persisted
\* FailingStreak is N and the Status is Unhealthy from the Retries-th on
C29_Original ==
    tickHist.failed >= 0
    => /\ StateOf(healthLabel).FailingStreak = tickHist.failed
       /\ tickHist.failed >= hc.Retries => StateOf(healthLabel).Status = Unhealthy

(***************************************************************************)
(* C29: after N failing health-interval ticks outside the start period     *)
(* have completed, and no tick of another kind, the persisted              *)
(* FailingStreak is at most N, it is at least 1 when N is, and the Status  *)
(* is Unhealthy exactly when the persisted FailingStreak has reached       *)
(* Retries; when no tick has read the state between the read and the      *)
(* write of another, the FailingStreak is N and the Status is Unhealthy    *)
(* from the Retries-th tick on.                                            *)
(***************************************************************************)
C29_StreakAtMostCompleted ==
    tickHist.failed >= 0
    => /\ StateOf(healthLabel).FailingStreak <= tickHist.failed
       /\ tickHist.failed >= 1 => StateOf(healthLabel).FailingStreak >= 1
       /\ (StateOf(healthLabel).Status = Unhealthy)
            <=> (StateOf(healthLabel).FailingStreak >= hc.Retries)
       /\ ~tickHist.overlapped
          => /\ StateOf(healthLabel).FailingStreak = tickHist.failed
             /\ tickHist.failed >= hc.Retries
                => StateOf(healthLabel).Status = Unhealthy

\* two failing ticks that overlapped have completed with Retries = 2: the
\* persisted streak is 1 and the Status is not Unhealthy
C29_Witness ==
    /\ tickHist.failed = 2 /\ tickHist.overlapped
    /\ NoTickUnderWay
    /\ hc.Retries = 2
    /\ healthLabel = [Status |-> Starting, FailingStreak |-> 1]

\* the step in which a start-period invocation that started inside the start
\* period returns, having called RemoveStartPeriodTimer
TeardownInGrace ==
    /\ Completes /\ workflowType = WorkflowStartPeriod
    /\ upd'.teardown
    /\ result'.Start - CreatedAt < hc.StartPeriod

StartPeriodTickDone ==
    /\ Completed /\ workflowType = WorkflowStartPeriod /\ upd.ran

(***************************************************************************)
(* C32: a start-period tick that obtains a probe result or a probe error,  *)
(* and whose reads of the state and of the container info succeed, signals *)
(* the teardown exactly when it read Status Healthy, or started at or past *)
(* the end of the start period, or got exit code 0; and if such ticks keep *)
(* completing while the clock runs, a teardown is eventually signalled.    *)
(***************************************************************************)
C32_TeardownEventually ==
    /\ [][(Completes /\ workflowType = WorkflowStartPeriod /\ upd'.ran)
            => (upd'.teardown
                 <=> \/ prior.Status = Healthy
                     \/ result'.Start - CreatedAt >= hc.StartPeriod
                     \/ result'.ExitCode = 0)]_vars
    /\ ([]<><<Completes /\ workflowType = WorkflowStartPeriod /\ upd'.ran>>_vars)
          => <>(StartPeriodTickDone /\ upd.teardown)

\* a start-period tick that found Starting and whose probe failed has signalled
\* the teardown because the start period was over
C32_Witness ==
    /\ StartPeriodTickDone /\ upd.teardown
    /\ hc.StartPeriod > 0 /\ PastStartPeriod
    /\ prev.Status = Starting /\ result.ExitCode # 0

(***************************************************************************)
(* C33: a probe execution that is in the race between the timeout and the  *)
(* exit of the process when the Timeout has elapsed eventually returns a   *)
(* result, whether or not the process ends by itself and whether or not    *)
(* the kill is delivered.                                                  *)
(***************************************************************************)
C33_ReturnsAfterTimeout ==
    (pc = "select" /\ now - timerStart >= hc.Timeout)
        ~> (pc = "idle" /\ result # NoResult)

(***************************************************************************)
(* C34: when probeHealthCheck has returned after the exec process and its  *)
(* IO were created (exit of the process, timeout, start failure, wait      *)
(* failure), the IO streams of the process have been waited on and closed. *)
(***************************************************************************)
C34_IOClosedOnEveryReturn ==
    (Completed /\ proc # "none") => ioClosed

(***************************************************************************)
(* C35: in the executions from the default state {Starting, 0}, one        *)
(* invocation at a time, with Retries >= 1, the persisted Status is        *)
(* Unhealthy exactly when the persisted FailingStreak is at least Retries. *)
(***************************************************************************)
C35_UnhealthyIffStreakExhausted ==
    hc.Retries >= 1
    => ((health.Status = Unhealthy) <=> (health.FailingStreak >= hc.Retries))

\* the invocation that took the streak from below Retries to Retries, and the
\* Status to Unhealthy
C35_Witness ==
    /\ Completed /\ hc.Retries = 2
    /\ health.Status = Unhealthy /\ health.FailingStreak = 2
    /\ prev.Status # Unhealthy /\ prev.FailingStreak = 1

(***************************************************************************)
(* C36: for every Test vector, the empty one included, the command         *)
(* resolution ends with a process spec, with the skip outcome or with a    *)
(* returned configuration error; it never crashes on Test[0].              *)
(***************************************************************************)
C36_ResolutionNeverCrashes ==
    /\ ret # "panic: index out of range"
    /\ (pc = "idle" /\ ret # "not called" /\ result = NoResult)
       => \/ ret = "nil" /\ processSpec = NoSpec
          \/ ret \in {NoCommandError, "failed to get container spec"}

(***************************************************************************)
(* C37: the command of every timer unit the creation functions make        *)
(* carries exactly one of --health and --start-period, the one of the      *)
(* workflow the unit is named for, and no run of the command by a timer is *)
(* rejected for a missing or a conflicting workflow flag.                  *)
(***************************************************************************)
C37_ScheduledCommandHasItsFlag ==
    /\ \A wf \in {WorkflowHealthInterval, WorkflowStartPeriod} :
          LET u == units[hcUnitNameWithType(ContainerID, wf, TRUE)]
          IN  u # NoUnit => u.flag = timerFlag(wf)
    /\ cli.err \notin {"workflow type must be specified (--health or --start-period)",
                        "--health and --start-period flags are mutually exclusive"}

(***************************************************************************)
(* C38: an invocation that calls RemoveStartPeriodTimer returns what it    *)
(* would return had the removal succeeded, whether the removal succeeds or *)
(* not: in the no-change case it returns the error of the probe or nil     *)
(* with the state and the log untouched, and in the success case           *)
(* {Healthy, 0} is persisted and the result logged unless a write fails.   *)
(***************************************************************************)
C38_TeardownFailureIgnored ==
    [][(Completes /\ upd'.teardown)
        => /\ workflowType = WorkflowStartPeriod
           /\ upd'.err \in {"nil", "failed to write health state to labels",
                             "failed to write health log"}
           /\ ret' = IF probeErr' # "nil" THEN "health check probe failed"
                      ELSE IF upd'.err # "nil" THEN "failed to update health status"
                      ELSE "nil"
           /\ IF prior.Status = Healthy \/ result'.Start - CreatedAt >= hc.StartPeriod
              THEN /\ upd'.err = "nil"
                   /\ healthLabel' = healthLabel /\ healthLog' = healthLog
              ELSE /\ result'.ExitCode = 0
                   /\ upd'.err = "nil"
                      => /\ post = HealthyZero
                         /\ healthLog' = writeHealthLog(healthLog, result')]_vars

\* the probe of a start-period invocation succeeded, the removal of the timer
\* failed (the start-period units are still there), the invocation returned
\* nil, {Healthy, 0} is persisted and the result is in the log
C38_Witness ==
    /\ Completed /\ workflowType = WorkflowStartPeriod /\ upd.teardown
    /\ systemdOn /\ StartUnit.timer = "active" /\ StartUnit.service = "started"
    /\ ret = "nil" /\ prev.Status = Starting
    /\ health = HealthyZero
    /\ healthLog # << >> /\ healthLog[Len(healthLog)].ExitCode = 0

\* the container has no usable health-check label, or no probe command, or
\* no interval, or systemd is unavailable or disabled for health checks
TimersSkipped ==
    \/ ~hcLabelled
    \/ ~systemdOn
    \/ hc.Test = << >>
    \/ hc.Test[1] = <<"NONE">>
    \/ hc.Interval = 0

(***************************************************************************)
(* C39: for a container whose health check is skipped,                     *)
(* CreateHealthCheckTimers and StartHealthCheckTimers return nil, no timer *)
(* unit is ever created or started, and no tick is ever run.               *)
(***************************************************************************)
C39_SkippedMeansNoTimers ==
    TimersSkipped
    => /\ \A n \in UnitNames : units[n] = NoUnit
       /\ createRet \in {"not called", "nil"}
       /\ startRet \in {"not called", "nil"}
       /\ pc = "idle" /\ result = NoResult /\ cli = NoCli

\* both functions have returned nil for a labelled container with a probe
\* command and no interval, on a host with systemd, and there is no unit
C39_Witness ==
    /\ hcLabelled /\ systemdOn
    /\ hc.Test = <<CmdShell, <<"x">> >> /\ hc.Interval = 0
    /\ createRet = "nil" /\ startRet = "nil"
    /\ \A n \in UnitNames : units[n] = NoUnit

====
